---- MODULE Spec2Model ----
(***************************************************************************)
(* pushover-notify: the scheduling worker (internal/worker), the JSON      *)
(* store it shares with the HTTP handlers (internal/storage) and the       *)
(* handlers that mutate notifications (internal/web).                       *)
(*                                                                          *)
(* Time is counted in ticks of half a minute, so that time.Now() and a     *)
(* stored ScheduledTime can fall between two whole minutes.                 *)
(* Strings that the code parses (durations, integers) are sequences of      *)
(* one-character strings, parsed the way the code parses them.              *)
(***************************************************************************)
EXTENDS Integers, Sequences, FiniteSets, TLC

(* ------------------------------ bounds --------------------------------- *)
\* the clock runs from 0 to MaxTime ticks
MaxTime == 4
\* at most MaxNotifs notifications are ever created (ids 1..MaxNotifs)
MaxNotifs == 2
\* at most MaxOps events come from outside: requests to the handlers, the signal
MaxOps == 1
\* Refresh calls are counted up to MaxRefresh between two receives from updateChan
MaxRefresh == 2

(* ------------------------- program constants --------------------------- *)
\* ticks in time.Minute
Minute == 2
\* ticks in time.Hour
Hour == 60 * Minute
\* the fallback interval of checkAndProcess, in minutes
DefaultIntervalMinutes == 30
\* the fallback repeat count of checkAndProcess and of the add handler
DefaultRepeatTimes == 3
\* capacity of Worker.updateChan
UpdateChanCap == 1
\* time.Time{}: the zero instant, IsZero() holds of it only
ZeroTime == -1

StatusPending == "Pending"
StatusDone == "Done"

(* ------------------------------ parsing -------------------------------- *)
DigitChars == {"0", "1", "2", "3", "4", "5", "6", "7", "8", "9"}

DigitVal(c) ==
    CASE c = "0" -> 0 [] c = "1" -> 1 [] c = "2" -> 2 [] c = "3" -> 3
      [] c = "4" -> 4 [] c = "5" -> 5 [] c = "6" -> 6 [] c = "7" -> 7
      [] c = "8" -> 8 [] c = "9" -> 9

\* length of the longest prefix of s made of digits
RECURSIVE DigitPrefixLen(_)
DigitPrefixLen(s) ==
    IF s = <<>> \/ Head(s) \notin DigitChars THEN 0
    ELSE 1 + DigitPrefixLen(Tail(s))

\* value of a sequence of digits, most significant first
RECURSIVE DigitsValue(_)
DigitsValue(s) ==
    IF s = <<>> THEN 0
    ELSE DigitsValue(SubSeq(s, 1, Len(s) - 1)) * 10 + DigitVal(s[Len(s)])

\* fmt.Sscanf(str, "%d", &v): an optional sign and digits; ok = FALSE leaves v alone
ScanInt(s) ==
    LET neg  == s # <<>> /\ Head(s) = "-"
        body == IF s # <<>> /\ Head(s) \in {"-", "+"} THEN Tail(s) ELSE s
        k    == DigitPrefixLen(body)
        v    == DigitsValue(SubSeq(body, 1, k))
    IN  IF k = 0 THEN [ok |-> FALSE, val |-> 0]
        ELSE [ok |-> TRUE, val |-> IF neg THEN 0 - v ELSE v]

\* ticks of a unit suffix of time.ParseDuration; 0 for a suffix it rejects
\* ("s" and below are under the model's resolution and are not used)
UnitTicks(u) ==
    CASE u = <<"m">> -> Minute
      [] u = <<"h">> -> Hour
      [] OTHER -> 0

\* time.ParseDuration on a string of the shape digits+unit:
\* err = TRUE for "", for a missing number and for an unknown unit such as "d"
ParseDuration(s) ==
    LET k == DigitPrefixLen(s)
        u == SubSeq(s, k + 1, Len(s))
    IN  IF k = 0 \/ UnitTicks(u) = 0 THEN [err |-> TRUE, d |-> 0]
        ELSE [err |-> FALSE, d |-> DigitsValue(SubSeq(s, 1, k)) * UnitTicks(u)]

\* combineRepeatInterval(value, unit)
combineRepeatInterval(value, unit) ==
    (IF value = <<>> THEN <<"3", "0">> ELSE value) \o (IF unit = <<>> THEN <<"m">> ELSE unit)

\* t.Truncate(time.Minute)
Truncate(t) == t - (t % Minute)

(* ------------------------------ inputs --------------------------------- *)
\* the datetime field of a form as time.ParseInLocation reads it with the layout
\* "2006-01-02T15:04": a whole minute, or an error
BadDate == [err |-> TRUE, t |-> 0]
AtMinute(m) == [err |-> FALSE, t |-> m * Minute]
\* the forms posted to /api/notifications: datetime, repeat_times and
\* repeat_interval_value / repeat_interval_unit
AddForms ==
    {[datetime |-> AtMinute(0), repeat_times |-> <<>>,         interval |-> << <<"1">>, <<"m">> >>],
     [datetime |-> AtMinute(1), repeat_times |-> <<"1">>,      interval |-> << <<>>, <<>> >>],
     [datetime |-> AtMinute(0), repeat_times |-> <<"-", "1">>, interval |-> << <<"1">>, <<"m">> >>]}
\* the forms put to /api/notifications/{id}
EditForms ==
    {[datetime |-> BadDate,     repeat_times |-> <<"1">>, interval |-> << <<"1">>, <<"m">> >>],
     [datetime |-> AtMinute(1), repeat_times |-> <<>>,    interval |-> << <<>>, <<>> >>]}
\* the forms posted to /settings: pushover_token, pushover_user, repeat_times and
\* repeat_interval_value / repeat_interval_unit
SettingsForms ==
    {[cred |-> << "", "" >>,       repeat_times |-> <<"2">>, interval |-> << <<>>, <<>> >>],
     [cred |-> << "tok", "usr" >>, repeat_times |-> <<"2">>, interval |-> << <<>>, <<>> >>]}
\* the credentials of the file that main loads at startup
CredentialInputs == {<< "", "" >>, << "tok", "usr" >>}

Ids == 1..MaxNotifs

\* the slot of an id that was never created
NoNotification ==
    [ScheduledTime |-> ZeroTime, Status |-> "", SendsCount |-> 0,
     LastPushTime |-> ZeroTime, RepeatTimes |-> 0, RepeatInterval |-> <<>>]

\* a notification of the file that main loads at startup, written by hand or by
\* another program: its scheduled_time falls between two whole minutes
StoredNotification ==
    [ScheduledTime |-> 1, Status |-> StatusPending, SendsCount |-> 0,
     LastPushTime |-> ZeroTime, RepeatTimes |-> 2, RepeatInterval |-> <<"1", "m">>]

VARIABLES
    now,          \* the wall clock, time.Now()
    settings,     \* Store.Data.Settings
    obj,          \* the Notification objects, by id (a pointer is an id)
    order,        \* Store.Data.Notifications: the ids in collection order
    created,      \* how many notifications were ever created
    pc,           \* where Worker.Start is
    pending,      \* checkAndProcess: the snapshot GetPending returned
    idx,          \* checkAndProcess: position in the range loop
    passNow,      \* checkAndProcess: now
    saveNeeded,   \* checkAndProcess: saveNeeded
    earliestNext, \* checkAndProcess: earliestNext
    loc,          \* checkAndProcess: repeatInterval, repeatTimes of the iteration
    nextRun,      \* Start: nextRun
    timer,        \* Start: the deadline the timer is armed for, or ZeroTime
    timerC,       \* Start: values waiting in timer.C
    updateChan,   \* Worker.updateChan: values waiting in it
    ctxDone,      \* ctx.Done() is closed
    file,         \* the backing file at Store.filePath
    diskChanged,  \* the file's ModTime is after Store.lastLoadedTime
    ret,          \* what the last direct call of a Store method returned
    lastFailed,   \* history: the last delivery attempt of the id failed
    refreshCalls, \* history: Refresh calls since updateChan was last received from
    ops,          \* history: events from outside so far
    edited,       \* history: the ids whose RepeatTimes a request has changed
    startDone,    \* history: the ids that were Done when the pass in progress began
    onUpdate,     \* Worker.onUpdate is not nil
    passOut,      \* history: the SendMessage, Save and onUpdate calls of the pass in
                  \* progress or just returned
    mu,           \* Store.mu: who holds it, and who waits in Lock
    call          \* the lock steps each goroutine has before it in the call it is in

vars == <<now, settings, obj, order, created, pc, pending, idx, passNow, saveNeeded,
          earliestNext, loc, nextRun, timer, timerC, updateChan, ctxDone,
          file, diskChanged, ret, lastFailed, refreshCalls, ops, edited, startDone,
          onUpdate, passOut, mu, call>>

storeVars == <<settings, obj, order, created>>
diskVars == <<file, diskChanged>>
passVars == <<pending, idx, passNow, saveNeeded, earliestNext, loc>>
loopVars == <<nextRun, timer, timerC>>
histVars == <<lastFailed, refreshCalls, ops, edited, startDone>>
hookVars == <<onUpdate, passOut>>
lockVars == <<mu, call>>

NoLocals == [repeatInterval |-> 0, repeatTimes |-> 0]
NoTimer == [armed |-> FALSE, at |-> 0]
NoPassOut == [sent |-> <<>>, saves |-> 0, failed |-> FALSE, hooks |-> 0]

(* ------------------------------ the store ------------------------------ *)
\* GetPending without its status filter
GetPendingUnfiltered == order

\* a GetPending that returns the Pending notifications last first
GetPendingReversed ==
    LET p == SelectSeq(order, LAMBDA i : obj[i].Status # StatusDone)
    IN  [i \in 1..Len(p) |-> p[Len(p) + 1 - i]]

\* Store.GetPending: the stored notifications whose status is not Done, in order
GetPending == SelectSeq(order, LAMBDA i : obj[i].Status # StatusDone)

\* the index of id in the collection ord, 0 when it is absent
IndexIn(ord, id) ==
    IF \E i \in 1..Len(ord) : ord[i] = id
    THEN CHOOSE i \in 1..Len(ord) : ord[i] = id
    ELSE 0

\* the index of id in the store's collection, 0 when it is absent
IndexOf(id) == IndexIn(order, id)

\* append(s[:i], s[i+1:]...) of Store.DeleteNotification
RemoveAt(s, i) == SubSeq(s, 1, i - 1) \o SubSeq(s, i + 1, Len(s))

\* the objects o once those that neither the collection ord nor the rest of the
\* snapshot pend (from position i on) refers to are gone
Collect(o, ord, pend, i) ==
    [k \in Ids |->
        IF (\E j \in 1..Len(ord) : ord[j] = k) \/ (\E j \in i..Len(pend) : pend[j] = k)
        THEN o[k] ELSE NoNotification]

(* ------------------------------ the file ------------------------------- *)
\* Store.Data as one value
Data == [settings |-> settings, order |-> order, obj |-> obj]

\* a credential with a byte that is not UTF-8, and what encoding/json writes for it
\* (the byte replaced by U+FFFD)
InvalidUtf8Token == "tok<FF>"
ReplacedToken == "tok<U+FFFD>"

\* a string as encoding/json writes and reads it back
EncodeString(str) == IF str = InvalidUtf8Token THEN ReplacedToken ELSE str

\* the "settings" object of the document (the password is left out of the model)
EncodeSettings(st) ==
    [PushoverToken  |-> EncodeString(st.PushoverToken),
     PushoverUser   |-> EncodeString(st.PushoverUser),
     RepeatTimes    |-> st.RepeatTimes,
     RepeatInterval |-> st.RepeatInterval]

\* an encoding that leaves sends_count out of the document
EncodeWithoutCount(id, n) ==
    [ID |-> id, ScheduledTime |-> n.ScheduledTime, Status |-> n.Status,
     SendsCount |-> 0, LastPushTime |-> n.LastPushTime,
     RepeatTimes |-> n.RepeatTimes, RepeatInterval |-> n.RepeatInterval]

\* one element of the "notifications" array of the document
EncodeNotification(id, n) ==
    [ID |-> id, ScheduledTime |-> n.ScheduledTime, Status |-> n.Status,
     SendsCount |-> n.SendsCount, LastPushTime |-> n.LastPushTime,
     RepeatTimes |-> n.RepeatTimes, RepeatInterval |-> n.RepeatInterval]

\* json.MarshalIndent(s.Data): the document Save writes
Marshal(d) ==
    [kind          |-> "schema",
     settings      |-> EncodeSettings(d.settings),
     notifications |-> [i \in 1..Len(d.order) |->
                           EncodeNotification(d.order[i], d.obj[d.order[i]])]]

\* the settings of a file that has none
NoSettings ==
    [PushoverToken |-> "", PushoverUser |-> "", RepeatTimes |-> 0, RepeatInterval |-> <<>>]

\* a file that does not exist, one of length 0, and one that is not JSON
MissingFile == [kind |-> "missing", settings |-> NoSettings, notifications |-> <<>>]
EmptyFile == [kind |-> "empty", settings |-> NoSettings, notifications |-> <<>>]
CorruptFile == [kind |-> "corrupt", settings |-> NoSettings, notifications |-> <<>>]

\* a file in the old format: a bare array of notifications
LegacyFile(notifs) == [kind |-> "list", settings |-> NoSettings, notifications |-> notifs]

\* the Notification json.Unmarshal builds from one element of the array
DecodeNotification(r) ==
    [ScheduledTime |-> r.ScheduledTime, Status |-> r.Status, SendsCount |-> r.SendsCount,
     LastPushTime |-> r.LastPushTime, RepeatTimes |-> r.RepeatTimes,
     RepeatInterval |-> r.RepeatInterval]

\* Load, "Set defaults": the settings with a zero RepeatTimes and an empty
\* RepeatInterval replaced
BackfillSettings(st) ==
    [st EXCEPT !.RepeatTimes = IF @ = 0 THEN DefaultRepeatTimes ELSE @,
               !.RepeatInterval = IF @ = <<>> THEN <<"3", "0", "m">> ELSE @]

\* Load, "Migration/Defaults for legacy data": the notification with a zero
\* RepeatTimes and an empty RepeatInterval replaced by those of the settings st
BackfillNotification(n, st) ==
    [n EXCEPT !.RepeatTimes = IF @ = 0 THEN st.RepeatTimes ELSE @,
              !.RepeatInterval = IF @ = <<>> THEN st.RepeatInterval ELSE @]

\* settings left as NewStore made them
SettingsLeftZero ==
    [PushoverToken |-> "", PushoverUser |-> "", RepeatInterval |-> <<>>, RepeatTimes |-> 0]

\* the settings Load builds for a file without settings
FreshSettings ==
    [PushoverToken |-> "", PushoverUser |-> "",
     RepeatInterval |-> <<"3", "0", "m">>, RepeatTimes |-> DefaultRepeatTimes]

\* the objects o with those listed in notifs decoded, each under its id
\* (no specification here keeps a snapshot of the worker across a Load, so the
\* elements that json.Unmarshal decodes into are not told apart from new ones)
Installed(o, notifs, st, backfill) ==
    [id \in Ids |->
        IF \E i \in 1..Len(notifs) : notifs[i].ID = id
        THEN LET r == notifs[CHOOSE i \in 1..Len(notifs) : notifs[i].ID = id]
             IN  IF backfill THEN BackfillNotification(DecodeNotification(r), st)
                 ELSE DecodeNotification(r)
        ELSE o[id]]

\* a Load that takes a file it cannot parse for an empty one
LoadCorruptAsEmpty(f, d) ==
    CASE f.kind = "list" ->
            [err |-> FALSE,
             data |-> [settings |-> FreshSettings,
                       order |-> [i \in 1..Len(f.notifications) |-> f.notifications[i].ID],
                       obj |-> Installed(d.obj, f.notifications, FreshSettings, FALSE)]]
      [] f.kind = "schema" ->
            [err |-> FALSE,
             data |-> [settings |-> BackfillSettings(f.settings),
                       order |-> [i \in 1..Len(f.notifications) |-> f.notifications[i].ID],
                       obj |-> Installed(d.obj, f.notifications,
                                         BackfillSettings(f.settings), TRUE)]]
      [] OTHER ->
            [err |-> FALSE, data |-> [settings |-> FreshSettings, order |-> <<>>, obj |-> d.obj]]

\* Store.Load of file f over the data d: the error it returns and s.Data after it
Load(f, d) ==
    CASE f.kind \in {"missing", "empty"} ->
            [err |-> FALSE, data |-> [settings |-> FreshSettings, order |-> <<>>, obj |-> d.obj]]
      [] f.kind = "list" ->
            [err |-> FALSE,
             data |-> [settings |-> FreshSettings,
                       order |-> [i \in 1..Len(f.notifications) |-> f.notifications[i].ID],
                       obj |-> Installed(d.obj, f.notifications, FreshSettings, FALSE)]]
      [] f.kind = "schema" ->
            [err |-> FALSE,
             data |-> [settings |-> BackfillSettings(f.settings),
                       order |-> [i \in 1..Len(f.notifications) |-> f.notifications[i].ID],
                       obj |-> Installed(d.obj, f.notifications,
                                         BackfillSettings(f.settings), TRUE)]]
      [] OTHER -> [err |-> TRUE, data |-> d]

\* s.Data after Store.CheckDiskChanges: reloaded when the file exists and is newer
CheckDiskChanges(d) ==
    IF file.kind # "missing" /\ diskChanged THEN Load(file, d).data ELSE d

\* a Save that does not record the ModTime of the file it wrote
SavedUnrecorded(saveOk, d, flag) ==
    /\ file' = IF saveOk THEN Marshal(d) ELSE file
    /\ diskChanged' = IF saveOk THEN TRUE ELSE flag

\* Store.Save, which writes document d and succeeds or fails: the file after it, and
\* whether it is newer than lastLoadedTime (flag: whether it was before)
Saved(saveOk, d, flag) ==
    /\ file' = IF saveOk THEN Marshal(d) ELSE file
    /\ diskChanged' = IF saveOk THEN FALSE ELSE flag

\* Store.Save when os.WriteFile returns an error after it has opened the file with
\* O_TRUNC: the file is left empty with a new ModTime, and lastLoadedTime is not
\* updated
SaveCutShort ==
    /\ file' = EmptyFile
    /\ diskChanged' = TRUE

(* ------------------------------ the worker ----------------------------- *)
IsZero(t) == t = ZeroTime

\* a Refresh that blocks nowhere and sends always
RefreshUnbounded(c) == c + 1

\* a Refresh that always takes the default branch of its select
RefreshDropped(c) == c

\* Worker.Refresh: a send on updateChan that is dropped when the channel is full
Refresh(c) == IF c < UpdateChanCap THEN c + 1 ELSE c

\* the repeatInterval of one iteration of checkAndProcess
RepeatIntervalOf(n) ==
    LET p == ParseDuration(n.RepeatInterval)
    IN  IF p.err THEN DefaultIntervalMinutes * Minute ELSE p.d

\* the repeatTimes of one iteration of checkAndProcess
RepeatTimesOf(n) == IF n.RepeatTimes = 0 THEN DefaultRepeatTimes ELSE n.RepeatTimes

\* nextSendTime counted from the last push instead of from the anchor
NextSendTimeFromLastPush(n, repeatInterval) ==
    IF n.SendsCount = 0 THEN n.ScheduledTime
    ELSE n.LastPushTime + repeatInterval

\* nextSendTime of one iteration of checkAndProcess
NextSendTime(n, repeatInterval) ==
    IF n.SendsCount = 0 THEN Truncate(n.ScheduledTime)
    ELSE Truncate(n.ScheduledTime) + repeatInterval * n.SendsCount

\* nextForThis of one iteration of checkAndProcess
NextForThis(n, repeatInterval) ==
    Truncate(n.ScheduledTime) + repeatInterval * n.SendsCount

\* a fold that keeps the first candidate it was given
FoldFirst(e, t) == IF IsZero(e) THEN t ELSE e

\* earliestNext after folding candidate t into it
FoldEarliest(e, t) == IF IsZero(e) \/ t < e THEN t ELSE e

\* a credentials check that lets every pass through
CredentialsUnchecked == FALSE

\* the credentials check of checkAndProcess
CredentialsMissing == settings.PushoverToken = "" \/ settings.PushoverUser = ""

\* checkAndProcess up to the range loop: settings, credentials, snapshot, now
PassBegin ==
    /\ pc = "start"
    /\ LET d == CheckDiskChanges(Data)
       IN  /\ settings' = d.settings
           /\ order' = d.order
           /\ obj' = Collect(d.obj, d.order, <<>>, 1)
    /\ diskChanged' = FALSE
    /\ IF CredentialsMissing'
       THEN /\ nextRun' = ZeroTime
            /\ pc' = "arm"
            /\ UNCHANGED <<passVars, startDone>>
       ELSE /\ pending' = GetPending'
            /\ passNow' = now
            /\ saveNeeded' = FALSE
            /\ earliestNext' = ZeroTime
            /\ idx' = 1
            /\ loc' = NoLocals
            /\ pc' = "loop"
            /\ startDone' = {i \in Ids : IndexIn(order', i) # 0 /\ obj'[i].Status = StatusDone}
            /\ UNCHANGED nextRun
    /\ UNCHANGED <<lockVars, hookVars, now, created, timer, timerC, updateChan, ctxDone, file, ret,
                   lastFailed, refreshCalls, ops, edited>>

\* the status check at the end of one iteration: the objects o with id marked Done
\* when its SendsCount has reached repeatTimes
MarkDone(o, id, repeatTimes) ==
    IF o[id].SendsCount >= repeatTimes THEN [o EXCEPT ![id].Status = StatusDone] ELSE o

\* the end of one iteration, after the delivery attempt if there was one:
\* o is the objects after the attempt, sn is saveNeeded after it
AfterAttempt(id, o, repeatInterval, repeatTimes, sn) ==
    /\ obj' = Collect(MarkDone(o, id, repeatTimes), order, pending, idx + 1)
    /\ IF o[id].SendsCount >= repeatTimes
       THEN /\ saveNeeded' = TRUE
            /\ UNCHANGED earliestNext
       ELSE /\ saveNeeded' = sn
            /\ earliestNext' = FoldEarliest(earliestNext, NextForThis(o[id], repeatInterval))
    /\ idx' = idx + 1
    /\ pc' = "loop"
    /\ loc' = NoLocals

\* one iteration of the range loop up to the call of SendMessage
Evaluate ==
    /\ pc = "loop"
    /\ idx <= Len(pending)
    /\ LET id == pending[idx]
           n == obj[id]
           repeatInterval == RepeatIntervalOf(n)
           repeatTimes == RepeatTimesOf(n)
           nextSendTime == NextSendTime(n, repeatInterval)
       IN  IF ~(passNow < nextSendTime)
           THEN IF n.SendsCount < repeatTimes
                THEN /\ pc' = "send"
                     /\ loc' = [repeatInterval |-> repeatInterval, repeatTimes |-> repeatTimes]
                     /\ UNCHANGED <<obj, idx, saveNeeded, earliestNext>>
                ELSE AfterAttempt(id, obj, repeatInterval, repeatTimes, saveNeeded)
           ELSE /\ earliestNext' = FoldEarliest(earliestNext, nextSendTime)
                /\ idx' = idx + 1
                /\ obj' = Collect(obj, order, pending, idx + 1)
                /\ UNCHANGED <<pc, loc, saveNeeded>>
    /\ UNCHANGED <<lockVars, hookVars, diskVars, ret, now, settings, order, created, pending, passNow, loopVars,
                   updateChan, ctxDone, histVars>>

\* the notification after SendMessage returned nil
Delivered(n, at) == [n EXCEPT !.SendsCount = @ + 1, !.LastPushTime = at]

\* a failed attempt that is counted like a delivery
UndeliveredCounted(n, at) == [n EXCEPT !.SendsCount = @ + 1, !.LastPushTime = at]

\* the notification after SendMessage returned an error
Undelivered(n, at) == [n EXCEPT !.LastPushTime = at]

\* SendMessage returns nil
SendOk ==
    /\ pc = "send"
    /\ LET id == pending[idx]
           o == [obj EXCEPT ![id] = Delivered(@, passNow)]
       IN  /\ AfterAttempt(id, o, loc.repeatInterval, loc.repeatTimes, TRUE)
           /\ lastFailed' = [lastFailed EXCEPT ![id] = FALSE]
           /\ passOut' = [passOut EXCEPT !.sent = Append(@, id)]
    /\ UNCHANGED <<lockVars, onUpdate, diskVars, ret, now, settings, order, created, pending, passNow, loopVars,
                   updateChan, ctxDone, refreshCalls, ops, edited, startDone>>

\* a SendMessage error that ends the range loop
SendFailAborts ==
    /\ pc = "send"
    /\ obj' = [obj EXCEPT ![pending[idx]] = Undelivered(@, passNow)]
    /\ lastFailed' = [lastFailed EXCEPT ![pending[idx]] = TRUE]
    /\ passOut' = [passOut EXCEPT !.sent = Append(@, pending[idx])]
    /\ saveNeeded' = TRUE
    /\ idx' = Len(pending) + 1
    /\ pc' = "loop"
    /\ loc' = NoLocals
    /\ UNCHANGED <<lockVars, onUpdate, diskVars, ret, now, settings, order, created, pending, passNow,
                   earliestNext, loopVars, updateChan, ctxDone, refreshCalls, ops, edited,
                   startDone>>

\* SendMessage returns an error
SendFail ==
    /\ pc = "send"
    /\ LET id == pending[idx]
           o == [obj EXCEPT ![id] = Undelivered(@, passNow)]
       IN  /\ AfterAttempt(id, o, loc.repeatInterval, loc.repeatTimes, TRUE)
           /\ lastFailed' = [lastFailed EXCEPT ![id] = (IndexOf(id) # 0)]
           /\ passOut' = [passOut EXCEPT !.sent = Append(@, id)]
    /\ UNCHANGED <<lockVars, onUpdate, diskVars, ret, now, settings, order, created, pending, passNow, loopVars,
                   updateChan, ctxDone, refreshCalls, ops, edited, startDone>>

\* a pass that saves whether or not it changed a notification
SaveAlways(sn) == TRUE

\* `if saveNeeded {`: whether the pass calls Store.Save
SaveCalled(sn) == sn

\* a pass that calls the hook after a Save that failed too
HookAfterAnySave(sn, saveOk, registered) == sn /\ registered

\* whether the pass calls w.onUpdate: after a Save that returned nil, when a hook
\* is registered
HookCalled(sn, saveOk, registered) == sn /\ saveOk /\ registered

\* the end of checkAndProcess, with a Save that succeeds or fails (cut: after
\* having truncated the file): the save when needed, the hook, and the return (a
\* failure is logged)
PassReturn(saveOk, cut) ==
    /\ idx > Len(pending)
    /\ nextRun' = earliestNext
    /\ pc' = "arm"
    /\ pending' = <<>>
    /\ idx' = 1
    /\ saveNeeded' = FALSE
    /\ earliestNext' = ZeroTime
    /\ startDone' = {}
    /\ IF SaveCalled(saveNeeded)
       THEN IF cut THEN SaveCutShort ELSE Saved(saveOk, Data, diskChanged)
       ELSE UNCHANGED diskVars
    /\ passOut' = [passOut EXCEPT
                     !.saves = IF SaveCalled(saveNeeded) THEN @ + 1 ELSE @,
                     !.failed = SaveCalled(saveNeeded) /\ ~saveOk,
                     !.hooks = IF HookCalled(saveNeeded, saveOk, onUpdate) THEN @ + 1 ELSE @]
    /\ UNCHANGED <<lockVars, onUpdate, now, storeVars, passNow, loc, timer, timerC, updateChan, ctxDone,
                   ret, lastFailed, refreshCalls, ops, edited>>

\* the end of checkAndProcess when Store.Save returns nil or is not called
PassEnd ==
    /\ pc = "loop"
    /\ PassReturn(TRUE, FALSE)

\* the end of checkAndProcess when Store.Save returns an error
PassEndSaveFails ==
    /\ pc = "loop"
    /\ saveNeeded
    /\ PassReturn(FALSE, FALSE)

\* the end of checkAndProcess when Store.Save returns the error of a write that was
\* cut short
PassEndSaveCut ==
    /\ pc = "loop"
    /\ saveNeeded
    /\ PassReturn(FALSE, TRUE)

\* timer.C after a timer.Stop() whose result is ignored
StopWithoutDrain(t, c) == c

\* timer.C after `if !timer.Stop() { select { case <-timer.C: default: } }`
StopAndDrain(t, c) == IF t.armed THEN c ELSE 0

\* a step 2 of Start that never calls timer.Reset
NeverArmed(next, at) == NoTimer

\* a step 2 of Start that resets the timer to one minute whatever nextRun is
ArmedForMinute(next, at) ==
    IF IsZero(next) THEN NoTimer ELSE [armed |-> TRUE, at |-> at + Minute]

\* the timer after step 2 of Start: off, or armed for max(0, nextRun - now)
ArmedTimer(next, at) ==
    IF IsZero(next) THEN NoTimer
    ELSE LET duration == IF next - at < 0 THEN 0 ELSE next - at
         IN  [armed |-> TRUE, at |-> at + duration]

\* Start, step 2: disarm the timer, or re-arm it
Arm ==
    /\ pc = "arm"
    /\ timerC' = StopAndDrain(timer, timerC)
    /\ timer' = ArmedTimer(nextRun, now)
    /\ pc' = "wait"
    /\ passOut' = NoPassOut
    /\ UNCHANGED <<lockVars, onUpdate, diskVars, ret, now, storeVars, passVars, nextRun, updateChan, ctxDone, histVars>>

\* the runtime: the armed timer expires and sends on timer.C
TimerFire ==
    /\ timer.armed
    /\ now >= timer.at
    /\ timer' = NoTimer
    /\ timerC' = 1
    /\ UNCHANGED <<lockVars, hookVars, diskVars, ret, now, storeVars, pc, passVars, nextRun, updateChan, ctxDone, histVars>>

\* a select without its ctx.Done() case
ShutdownUnobserved == FALSE

\* Start, step 3: case <-ctx.Done()
WaitShutdown ==
    /\ pc = "wait"
    /\ ctxDone
    /\ pc' = "stopped"
    /\ UNCHANGED <<lockVars, hookVars, diskVars, ret, now, storeVars, passVars, loopVars, updateChan, ctxDone, histVars>>

\* Start, step 3: case <-w.updateChan
WaitUpdate ==
    /\ pc = "wait"
    /\ updateChan > 0
    /\ updateChan' = updateChan - 1
    /\ refreshCalls' = 0
    /\ pc' = "start"
    /\ UNCHANGED <<lockVars, hookVars, diskVars, ret, now, storeVars, passVars, loopVars, ctxDone, lastFailed, ops,
                   edited, startDone>>

\* Start, step 3: case <-timer.C
WaitTimer ==
    /\ pc = "wait"
    /\ timerC > 0
    /\ timerC' = timerC - 1
    /\ pc' = "start"
    /\ UNCHANGED <<lockVars, hookVars, diskVars, ret, now, storeVars, passVars, nextRun, timer, updateChan, ctxDone, histVars>>

(* ------------------------------ handlers ------------------------------- *)
\* what every mutating handler does after its Store call: it returns when the
\* Save failed, and calls Worker.Refresh when it succeeded (the Server it belongs to
\* comes from NewServer, which has registered the hook)
Handled(saveOk) ==
    /\ onUpdate
    /\ ops' = ops + 1
    /\ updateChan' = IF saveOk THEN Refresh(updateChan) ELSE updateChan
    /\ refreshCalls' = IF saveOk THEN refreshCalls + 1 ELSE refreshCalls

\* RepeatTimes of the notification handleAPINotifications builds
AddRepeatTimes(repeatTimesStr) ==
    LET r == ScanInt(repeatTimesStr)
        v == IF repeatTimesStr # <<>> /\ r.ok THEN r.val ELSE 0
    IN  IF v = 0 THEN DefaultRepeatTimes ELSE v

\* the notification handleAPINotifications builds
NewNotification(datetime, repeatTimesStr, interval) ==
    [ScheduledTime  |-> Truncate(datetime.t),
     Status         |-> StatusPending,
     SendsCount     |-> 0,
     LastPushTime   |-> ZeroTime,
     RepeatTimes    |-> AddRepeatTimes(repeatTimesStr),
     RepeatInterval |-> combineRepeatInterval(interval[1], interval[2])]

\* handleAPINotifications (POST) behind authMiddleware: GetSettings, build the
\* notification, Store.AddNotification, Refresh
AddNotification(datetime, repeatTimesStr, interval, saveOk) ==
    /\ ops < MaxOps
    /\ created < MaxNotifs
    /\ ~datetime.err
    /\ LET d == CheckDiskChanges(Data)
           o == [d.obj EXCEPT ![created + 1] = NewNotification(datetime, repeatTimesStr, interval)]
           ord == Append(d.order, created + 1)
       IN  /\ settings' = d.settings
           /\ order' = ord
           /\ obj' = Collect(o, ord, pending, idx)
           /\ Saved(saveOk, [settings |-> d.settings, order |-> ord, obj |-> o], FALSE)
    /\ created' = created + 1
    /\ Handled(saveOk)
    /\ UNCHANGED <<lockVars, hookVars, now, pc, passVars, loopVars, ctxDone, ret, lastFailed, edited, startDone>>

\* an edit that also puts the notification back to Pending
EditedAndReopened(n, datetime, repeatTimesStr, interval) ==
    [n EXCEPT !.Status = StatusPending,
              !.RepeatTimes = IF ScanInt(repeatTimesStr).ok /\ ScanInt(repeatTimesStr).val > 0
                              THEN ScanInt(repeatTimesStr).val ELSE @,
              !.RepeatInterval = combineRepeatInterval(interval[1], interval[2])]

\* the notification handleAPIUpdateNotification leaves behind: the object that
\* GetNotification returned, with the form's fields written into it
EditedNotification(n, datetime, repeatTimesStr, interval) ==
    LET r == ScanInt(repeatTimesStr)
    IN  [n EXCEPT
           !.ScheduledTime  = IF ~datetime.err THEN Truncate(datetime.t) ELSE @,
           !.RepeatTimes    = IF r.ok /\ r.val > 0 THEN r.val ELSE @,
           !.RepeatInterval = combineRepeatInterval(interval[1], interval[2])]

\* handleAPIUpdateNotification behind authMiddleware: GetSettings, GetNotification,
\* write the fields in place, Store.UpdateNotification, Refresh
UpdateNotification(id, datetime, repeatTimesStr, interval, saveOk) ==
    /\ ops < MaxOps
    /\ LET d == CheckDiskChanges(Data)
       IN  /\ IndexIn(d.order, id) # 0
           /\ LET o == [d.obj EXCEPT ![id] = EditedNotification(@, datetime, repeatTimesStr, interval)]
              IN  /\ settings' = d.settings
                  /\ order' = d.order
                  /\ obj' = Collect(o, d.order, pending, idx)
                  /\ edited' = IF o[id].RepeatTimes # d.obj[id].RepeatTimes
                                THEN edited \cup {id} ELSE edited
                  /\ Saved(saveOk, [settings |-> d.settings, order |-> d.order, obj |-> o], FALSE)
    /\ Handled(saveOk)
    /\ UNCHANGED <<lockVars, hookVars, now, created, pc, passVars, loopVars, ctxDone, ret, lastFailed, startDone>>

\* handleAPIDeleteNotification behind authMiddleware: GetSettings,
\* Store.DeleteNotification, Refresh
DeleteNotification(id, saveOk) ==
    /\ ops < MaxOps
    /\ LET d == CheckDiskChanges(Data)
       IN  /\ IndexIn(d.order, id) # 0
           /\ LET ord == RemoveAt(d.order, IndexIn(d.order, id))
              IN  /\ settings' = d.settings
                  /\ order' = ord
                  /\ obj' = Collect(d.obj, ord, pending, idx)
                  /\ Saved(saveOk, [settings |-> d.settings, order |-> ord, obj |-> d.obj], FALSE)
    /\ lastFailed' = [lastFailed EXCEPT ![id] = FALSE]
    /\ edited' = edited \ {id}
    /\ startDone' = startDone \ {id}
    /\ Handled(saveOk)
    /\ UNCHANGED <<lockVars, hookVars, now, created, pc, passVars, loopVars, ctxDone, ret>>

\* the settings handleSettings (POST) hands to Store.UpdateSettings
EditedSettings(old, cred, repeatTimesStr, interval) ==
    LET r == ScanInt(repeatTimesStr)
    IN  [PushoverToken  |-> cred[1],
         PushoverUser   |-> cred[2],
         RepeatInterval |-> combineRepeatInterval(interval[1], interval[2]),
         RepeatTimes    |-> IF r.ok THEN r.val ELSE old.RepeatTimes]

\* handleSettings (POST) behind authMiddleware: GetSettings, overwrite the form's
\* fields, Store.UpdateSettings, Refresh
UpdateSettings(cred, repeatTimesStr, interval, saveOk) ==
    /\ ops < MaxOps
    /\ LET d == CheckDiskChanges(Data)
           st == EditedSettings(d.settings, cred, repeatTimesStr, interval)
       IN  /\ settings' = st
           /\ order' = d.order
           /\ obj' = Collect(d.obj, d.order, pending, idx)
           /\ Saved(saveOk, [settings |-> st, order |-> d.order, obj |-> d.obj], FALSE)
    /\ Handled(saveOk)
    /\ UNCHANGED <<lockVars, hookVars, now, created, pc, passVars, loopVars, ctxDone, ret, lastFailed,
                   edited, startDone>>

(* ---------------------------- environment ------------------------------ *)
\* main: web.NewServer, which calls w.SetOnUpdate(s.broadcastRefresh) while the
\* worker started by `go w.Start(ctx)` is running; the worker reads the field
\* without synchronization and finds it nil or set
SetOnUpdate ==
    /\ ~onUpdate
    /\ onUpdate' = TRUE
    /\ UNCHANGED <<lockVars, passOut, diskVars, ret, now, storeVars, pc, passVars, loopVars,
                   updateChan, ctxDone, histVars>>

\* time passes
Tick ==
    /\ now < MaxTime
    /\ now' = now + 1
    /\ UNCHANGED <<lockVars, hookVars, diskVars, ret, storeVars, pc, passVars, loopVars, updateChan, ctxDone, histVars>>

\* main: cancel() after SIGINT or SIGTERM
Cancel ==
    /\ ~ctxDone
    /\ ops < MaxOps
    /\ ops' = ops + 1
    /\ ctxDone' = TRUE
    /\ UNCHANGED <<lockVars, hookVars, diskVars, ret, now, storeVars, pc, passVars, loopVars, updateChan, lastFailed,
                   refreshCalls, edited, startDone>>

(* --------------------------- specification ----------------------------- *)
\* Store.Load of a missing or empty file
DefaultSettings(cred) ==
    [PushoverToken |-> cred[1], PushoverUser |-> cred[2],
     RepeatInterval |-> <<"3", "0", "m">>, RepeatTimes |-> DefaultRepeatTimes]

\* no Store method was called directly yet
NoReturn == [op |-> "none", arg |-> 0, err |-> "none", val |-> <<>>]

\* NewWorker, and Start before its loop
\* the goroutines that call the Store: the worker and the HTTP handlers
Callers == {"worker", "handler1", "handler2"}

\* sync.RWMutex of the Store, unlocked: w is the writer that has entered Lock
\* ("none" when there is none), held whether it has the lock, r the goroutines
\* holding the read lock, rwait the goroutines blocked in RLock
NoLock == [w |-> "none", held |-> FALSE, r |-> {}, rwait |-> {}]

WorkerInit ==
    /\ mu = NoLock
    /\ call = [c \in Callers |-> <<>>]
    /\ pc = "start"
    /\ pending = <<>>
    /\ idx = 1
    /\ passNow = 0
    /\ saveNeeded = FALSE
    /\ earliestNext = ZeroTime
    /\ loc = NoLocals
    /\ nextRun = ZeroTime
    /\ timer = NoTimer
    /\ timerC = 0
    /\ updateChan = 0
    /\ ctxDone = FALSE
    /\ lastFailed = [i \in Ids |-> FALSE]
    /\ refreshCalls = 0
    /\ ops = 0
    /\ edited = {}
    /\ startDone = {}
    /\ ret = NoReturn
    /\ passOut = NoPassOut

\* main up to `go w.Start(ctx)`: NewStore, Load, NewWorker
Init ==
    /\ now = 0
    /\ \E cred \in CredentialInputs : settings = DefaultSettings(cred)
    /\ \/ /\ created = 0
          /\ order = <<>>
          /\ obj = [i \in Ids |-> NoNotification]
       \/ /\ created = 1
          /\ order = <<1>>
          /\ obj = [i \in Ids |-> IF i = 1 THEN StoredNotification ELSE NoNotification]
    /\ file = Marshal(Data)
    /\ diskChanged = FALSE
    /\ onUpdate = FALSE
    /\ WorkerInit

Next ==
    \/ PassBegin
    \/ Evaluate
    \/ SendOk
    \/ SendFail
    \/ PassEnd
    \/ Arm
    \/ TimerFire
    \/ WaitShutdown
    \/ WaitUpdate
    \/ WaitTimer
    \/ Tick
    \/ Cancel
    \/ SetOnUpdate
    \/ \E f \in AddForms, saveOk \in BOOLEAN :
            AddNotification(f.datetime, f.repeat_times, f.interval, saveOk)
    \/ \E id \in Ids, f \in EditForms, saveOk \in BOOLEAN :
            UpdateNotification(id, f.datetime, f.repeat_times, f.interval, saveOk)
    \/ \E id \in Ids, saveOk \in BOOLEAN : DeleteNotification(id, saveOk)
    \/ \E f \in SettingsForms, saveOk \in BOOLEAN :
            UpdateSettings(f.cred, f.repeat_times, f.interval, saveOk)

Spec == Init /\ [][Next]_vars

(* ------------- the program with a disk that may refuse a write --------- *)
\* Store.Save may return an error to the worker as it may to the handlers
NextPersist ==
    \/ Next
    \/ PassEndSaveFails
    \/ PassEndSaveCut

SpecPersist == Init /\ [][NextPersist]_vars

(* ----------------- the worker alone, on a loaded store ----------------- *)
\* a Pending notification of the loaded file that was never delivered: scheduled at
\* tick t, with repeat_times n and a repeat_interval of one minute
Scheduled(t, n) ==
    [ScheduledTime |-> t, Status |-> StatusPending, SendsCount |-> 0,
     LastPushTime |-> ZeroTime, RepeatTimes |-> n, RepeatInterval |-> <<"1", "m">>]

\* the notifications of the loaded file whose last slot falls within the clock's range
ScheduledInputs ==
    {m \in {Scheduled(t, n) : t \in 0..Minute, n \in 1..DefaultRepeatTimes} :
        Truncate(m.ScheduledTime) + RepeatIntervalOf(m) * (m.RepeatTimes - 1) <= MaxTime}

\* main up to `go w.Start(ctx)` with credentials set and one or two such
\* notifications in the file
InitLoaded ==
    /\ now = 0
    /\ settings = DefaultSettings(<< "tok", "usr" >>)
    /\ \/ \E a \in ScheduledInputs :
             /\ created = 1
             /\ order = <<1>>
             /\ obj = [i \in Ids |-> IF i = 1 THEN a ELSE NoNotification]
       \/ \E a \in ScheduledInputs, b \in ScheduledInputs :
             /\ created = 2
             /\ order = <<1, 2>>
             /\ obj = [i \in Ids |-> IF i = 1 THEN a ELSE IF i = 2 THEN b ELSE NoNotification]
    /\ file = Marshal(Data)
    /\ diskChanged = FALSE
    /\ onUpdate = FALSE
    /\ WorkerInit

\* the worker with a SendMessage that always returns nil, no request and no signal
NextLive ==
    \/ PassBegin
    \/ Evaluate
    \/ SendOk
    \/ PassEnd
    \/ Arm
    \/ TimerFire
    \/ WaitTimer
    \/ Tick

\* the goroutine keeps running, the runtime fires expired timers, time advances
SpecLive ==
    /\ InitLoaded
    /\ [][NextLive]_vars
    /\ WF_vars(PassBegin) /\ WF_vars(Evaluate) /\ WF_vars(SendOk) /\ WF_vars(PassEnd)
    /\ WF_vars(Arm) /\ WF_vars(TimerFire) /\ WF_vars(WaitTimer) /\ WF_vars(Tick)

\* the worker with a SendMessage that always returns an error, no request and no signal
NextFail ==
    \/ PassBegin
    \/ Evaluate
    \/ SendFail
    \/ PassEnd
    \/ Arm
    \/ TimerFire
    \/ WaitTimer
    \/ Tick

SpecFail == InitLoaded /\ [][NextFail]_vars

\* the worker with a SendMessage that returns nil or an error, no request and no signal
NextEngine ==
    \/ PassBegin
    \/ Evaluate
    \/ SendOk
    \/ SendFail
    \/ PassEnd
    \/ Arm
    \/ TimerFire
    \/ WaitTimer
    \/ Tick

SpecEngine == InitLoaded /\ [][NextEngine]_vars

(* -------- the worker alone, its hook and a disk that may refuse -------- *)
NextHook ==
    \/ NextEngine
    \/ PassEndSaveFails
    \/ SetOnUpdate

SpecHook == InitLoaded /\ [][NextHook]_vars

(* ------------------- the worker and callers of Refresh ----------------- *)
\* a Refresh that sends on updateChan without a default case
RefreshCallBlocking ==
    /\ refreshCalls < MaxRefresh
    /\ updateChan < UpdateChanCap
    /\ updateChan' = updateChan + 1
    /\ refreshCalls' = refreshCalls + 1
    /\ UNCHANGED <<lockVars, hookVars, diskVars, ret, now, storeVars, pc, passVars, loopVars, ctxDone, lastFailed, ops,
                   edited, startDone>>

\* Worker.Refresh as a handler calls it after its store call
RefreshCall ==
    /\ refreshCalls < MaxRefresh
    /\ updateChan' = Refresh(updateChan)
    /\ refreshCalls' = refreshCalls + 1
    /\ UNCHANGED <<lockVars, hookVars, diskVars, ret, now, storeVars, pc, passVars, loopVars, ctxDone, lastFailed, ops,
                   edited, startDone>>

NextWake ==
    \/ PassBegin
    \/ Evaluate
    \/ SendOk
    \/ SendFail
    \/ PassEnd
    \/ Arm
    \/ TimerFire
    \/ WaitShutdown
    \/ WaitUpdate
    \/ WaitTimer
    \/ Tick
    \/ Cancel
    \/ RefreshCall

SpecWake == Init /\ [][NextWake]_vars

\* the goroutine keeps running and SendMessage returns; select picks among its ready
\* cases at random, so a case that is ready again and again is taken
SpecWakeFair ==
    /\ Init
    /\ [][NextWake]_vars
    /\ WF_vars(PassBegin) /\ WF_vars(Evaluate) /\ WF_vars(SendOk \/ SendFail)
    /\ WF_vars(PassEnd) /\ WF_vars(Arm) /\ WF_vars(TimerFire)
    /\ SF_vars(WaitUpdate) /\ SF_vars(WaitShutdown)

(* ------------------ the store and its file, by themselves -------------- *)
\* a notification of a file in the old format, which has neither repeat_times nor
\* repeat_interval
LegacyNotification(id, status, sends) ==
    [ID |-> id, ScheduledTime |-> 1, Status |-> status, SendsCount |-> sends,
     LastPushTime |-> IF sends = 0 THEN ZeroTime ELSE 1,
     RepeatTimes |-> 0, RepeatInterval |-> <<>>]

\* the arrays of the files in the old format
LegacyLists ==
    { <<LegacyNotification(1, StatusPending, 1)>>,
      <<LegacyNotification(2, StatusDone, 3), LegacyNotification(1, StatusPending, 0)>> }

\* documents in the current format as another program or an editor writes them
WrittenDocuments ==
    { [kind          |-> "schema",
       settings      |-> EncodeSettings(DefaultSettings(<< "tok", "usr" >>)),
       notifications |-> <<>>],
      [kind          |-> "schema",
       settings      |-> EncodeSettings(DefaultSettings(<< "tok", "usr" >>)),
       notifications |-> <<EncodeNotification(1, [StoredNotification EXCEPT !.SendsCount = 1,
                                                                           !.LastPushTime = 1])>>] }

\* the files the process finds at startup, and the ones written behind its back
FileInputs ==
    {MissingFile, EmptyFile, CorruptFile} \cup {LegacyFile(l) : l \in LegacyLists}
        \cup WrittenDocuments

\* the forms posted to /settings, with a repeat_times of 0 and with a token that is
\* not UTF-8 among them
StoreSettingsForms ==
    SettingsForms \cup
    {[cred |-> << "tok", "usr" >>,            repeat_times |-> <<"0">>, interval |-> << <<>>, <<>> >>],
     [cred |-> << InvalidUtf8Token, "usr" >>, repeat_times |-> <<"2">>, interval |-> << <<>>, <<>> >>]}

\* the notifications handed to Store.UpdateNotification by a direct caller
UpdateInputs == {StoredNotification}

\* NewStore: s.Data before the first Load
NewStoreData ==
    [settings |-> NoSettings, order |-> <<>>, obj |-> [i \in Ids |-> NoNotification]]

\* the highest id among c and the notifications notifs of a file (an id that a file
\* uses is not given to a notification created later)
HighestId(notifs, c) ==
    IF \E k \in Ids : k > c /\ \E i \in 1..Len(notifs) : notifs[i].ID = k
    THEN CHOOSE k \in Ids : /\ \E i \in 1..Len(notifs) : notifs[i].ID = k
                            /\ \A i \in 1..Len(notifs) : notifs[i].ID <= k
    ELSE c

\* the notifications ids of the data d as a caller sees them through the pointers
\* it is handed
Returned(d, ids) == [i \in 1..Len(ids) |-> [ID |-> ids[i], n |-> d.obj[ids[i]]]]

\* the loop of Store.GetPending over the data d
PendingOf(d) == SelectSeq(d.order, LAMBDA i : d.obj[i].Status # StatusDone)

\* what an accessor op called with arg returns over the data d
ValueOf(op, arg, d) ==
    CASE op = "GetSettings" -> <<d.settings>>
      [] op = "GetAllNotifications" -> Returned(d, d.order)
      [] op = "GetPending" -> Returned(d, PendingOf(d))
      [] op = "GetNotification" ->
            IF IndexIn(d.order, arg) # 0 THEN Returned(d, <<arg>>) ELSE <<>>
      [] OTHER -> <<>>

\* what the accessors that begin with CheckDiskChanges share: the reload when the
\* file is newer, and the value read under the lock
Accessor(op) ==
    /\ LET d == CheckDiskChanges(Data)
       IN  /\ settings' = d.settings
           /\ order' = d.order
           /\ obj' = Collect(d.obj, d.order, pending, idx)
           /\ ret' = [op |-> op, arg |-> 0, err |-> "none", val |-> ValueOf(op, 0, d)]
    /\ diskChanged' = FALSE

\* Store.GetSettings called directly
StoreGetSettings ==
    /\ Accessor("GetSettings")
    /\ UNCHANGED <<lockVars, hookVars, now, created, file, pc, passVars, loopVars, updateChan, ctxDone, histVars>>

\* Store.GetAllNotifications called directly
StoreGetAllNotifications ==
    /\ Accessor("GetAllNotifications")
    /\ UNCHANGED <<lockVars, hookVars, now, created, file, pc, passVars, loopVars, updateChan, ctxDone, histVars>>

\* Store.GetPending called directly
StoreGetPending ==
    /\ Accessor("GetPending")
    /\ UNCHANGED <<lockVars, hookVars, now, created, file, pc, passVars, loopVars, updateChan, ctxDone, histVars>>

\* Store.GetNotification called directly: the loop over s.Data.Notifications, with
\* no CheckDiskChanges before it
StoreGetNotification(id) ==
    /\ ret' = [op |-> "GetNotification", arg |-> id,
               err |-> IF IndexOf(id) # 0 THEN "none" ELSE "notfound",
               val |-> ValueOf("GetNotification", id, Data)]
    /\ UNCHANGED <<lockVars, hookVars, now, storeVars, diskVars, pc, passVars, loopVars, updateChan, ctxDone,
                   histVars>>

\* an UpdateNotification that saves whether it found the id or not
UpdateAlwaysSaving(id, n, saveOk) ==
    /\ obj' = IF IndexOf(id) # 0 THEN [obj EXCEPT ![id] = n] ELSE obj
    /\ Saved(saveOk, [settings |-> settings, order |-> order, obj |-> obj'], diskChanged)
    /\ ret' = [op |-> "UpdateNotification", arg |-> id,
               err |-> IF IndexOf(id) = 0 THEN "notfound" ELSE IF saveOk THEN "none" ELSE "save",
               val |-> <<>>]
    /\ UNCHANGED <<lockVars, hookVars, now, settings, order, created, pc, passVars, loopVars, updateChan,
                   ctxDone, histVars>>

\* Store.UpdateNotification called directly with a notification whose ID is id
StoreUpdateNotification(id, n, saveOk) ==
    /\ IF IndexOf(id) # 0
       THEN /\ obj' = [obj EXCEPT ![id] = n]
            /\ Saved(saveOk, [settings |-> settings, order |-> order, obj |-> obj'], diskChanged)
            /\ ret' = [op |-> "UpdateNotification", arg |-> id,
                       err |-> IF saveOk THEN "none" ELSE "save", val |-> <<>>]
       ELSE /\ ret' = [op |-> "UpdateNotification", arg |-> id, err |-> "notfound",
                       val |-> <<>>]
            /\ UNCHANGED <<obj, diskVars>>
    /\ UNCHANGED <<lockVars, hookVars, now, settings, order, created, pc, passVars, loopVars, updateChan,
                   ctxDone, histVars>>

\* Store.DeleteNotification called directly
StoreDeleteNotification(id, saveOk) ==
    /\ IF IndexOf(id) # 0
       THEN /\ order' = RemoveAt(order, IndexOf(id))
            /\ obj' = Collect(obj, order', pending, idx)
            /\ Saved(saveOk, [settings |-> settings, order |-> order', obj |-> obj], diskChanged)
            /\ ret' = [op |-> "DeleteNotification", arg |-> id,
                       err |-> IF saveOk THEN "none" ELSE "save", val |-> <<>>]
       ELSE /\ ret' = [op |-> "DeleteNotification", arg |-> id, err |-> "notfound",
                       val |-> <<>>]
            /\ UNCHANGED <<order, obj, diskVars>>
    /\ UNCHANGED <<lockVars, hookVars, now, settings, created, pc, passVars, loopVars, updateChan, ctxDone,
                   histVars>>

\* another program or an editor writes the file: its ModTime is now after
\* lastLoadedTime (the documents written here name every field, so that the fields
\* json.Unmarshal would leave as they were do not arise)
ExternalWrite(f) ==
    /\ f.kind # "missing"
    /\ file' = f
    /\ diskChanged' = TRUE
    /\ created' = HighestId(f.notifications, created)
    /\ UNCHANGED <<lockVars, hookVars, now, settings, obj, order, ret, pc, passVars, loopVars, updateChan,
                   ctxDone, histVars>>

\* the process ends and main starts again: NewStore and Load of the file as it is
\* (main exits when Load returns an error; the worker of the new process is at its
\* start, where this specification leaves it)
Restart ==
    /\ LET l == Load(file, NewStoreData)
       IN  /\ ~l.err
           /\ settings' = l.data.settings
           /\ order' = l.data.order
           /\ obj' = l.data.obj
    /\ diskChanged' = FALSE
    /\ ret' = [op |-> "Load", arg |-> 0, err |-> "none", val |-> <<>>]
    /\ UNCHANGED <<lockVars, hookVars, now, created, file, pc, passVars, loopVars, updateChan, ctxDone, histVars>>

\* main up to ListenAndServe over one of the files
InitStore ==
    /\ now = 0
    /\ \E f \in FileInputs :
          /\ ~Load(f, NewStoreData).err
          /\ file = f
          /\ settings = Load(f, NewStoreData).data.settings
          /\ order = Load(f, NewStoreData).data.order
          /\ obj = Load(f, NewStoreData).data.obj
          /\ created = HighestId(f.notifications, 0)
    /\ diskChanged = FALSE
    /\ onUpdate = TRUE
    /\ WorkerInit

NextStore ==
    \/ StoreGetSettings
    \/ StoreGetAllNotifications
    \/ StoreGetPending
    \/ \E id \in Ids : StoreGetNotification(id)
    \/ \E id \in Ids, n \in UpdateInputs, saveOk \in BOOLEAN :
            StoreUpdateNotification(id, n, saveOk)
    \/ \E id \in Ids, saveOk \in BOOLEAN : StoreDeleteNotification(id, saveOk)
    \/ \E f \in StoreSettingsForms, saveOk \in BOOLEAN :
            UpdateSettings(f.cred, f.repeat_times, f.interval, saveOk)
    \/ \E f \in FileInputs : ExternalWrite(f)
    \/ Restart

SpecStore == InitStore /\ [][NextStore]_vars

(* ------- the worker on a store migrated from the old format ------------ *)
\* the forms posted to /settings after a migration: the credentials, and global
\* defaults other than 3 and "30m"
DefaultsForms ==
    {[cred |-> << "tok", "usr" >>, repeat_times |-> <<"2">>, interval |-> << <<"1">>, <<"m">> >>],
     [cred |-> << "tok", "usr" >>, repeat_times |-> <<"1">>, interval |-> << <<>>, <<>> >>]}

\* main up to ListenAndServe over a file in the old format
InitLegacy ==
    /\ now = 0
    /\ \E l \in LegacyLists :
          /\ file = LegacyFile(l)
          /\ settings = Load(file, NewStoreData).data.settings
          /\ order = Load(file, NewStoreData).data.order
          /\ obj = Load(file, NewStoreData).data.obj
          /\ created = HighestId(l, 0)
    /\ diskChanged = FALSE
    /\ onUpdate = TRUE
    /\ WorkerInit

\* the worker, and the request that sets the credentials and the global defaults
NextDefaults ==
    \/ PassBegin
    \/ Evaluate
    \/ SendOk
    \/ SendFail
    \/ PassEnd
    \/ Arm
    \/ TimerFire
    \/ WaitUpdate
    \/ WaitTimer
    \/ Tick
    \/ \E f \in DefaultsForms, saveOk \in BOOLEAN :
            UpdateSettings(f.cred, f.repeat_times, f.interval, saveOk)

SpecDefaults == InitLegacy /\ [][NextDefaults]_vars

(* ------- the worker and notifications added with their own interval ---- *)
\* the forms posted to /api/notifications with each unit the page offers
IntervalForms ==
    {[datetime |-> AtMinute(t), repeat_times |-> <<"2">>, interval |-> << v, u >>] :
        t \in 0..1, v \in {<<"1">>, <<"2">>}, u \in {<<"m">>, <<"h">>, <<"d">>}}

\* main up to ListenAndServe over a file with the credentials and no notification
InitEmpty ==
    /\ now = 0
    /\ settings = DefaultSettings(<< "tok", "usr" >>)
    /\ created = 0
    /\ order = <<>>
    /\ obj = [i \in Ids |-> NoNotification]
    /\ file = Marshal(Data)
    /\ diskChanged = FALSE
    /\ onUpdate = TRUE
    /\ WorkerInit

\* the worker, and the request that adds a notification
NextInterval ==
    \/ PassBegin
    \/ Evaluate
    \/ SendOk
    \/ SendFail
    \/ PassEnd
    \/ Arm
    \/ TimerFire
    \/ WaitUpdate
    \/ WaitTimer
    \/ Tick
    \/ \E f \in IntervalForms, saveOk \in BOOLEAN :
            AddNotification(f.datetime, f.repeat_times, f.interval, saveOk)

SpecInterval == InitEmpty /\ [][NextInterval]_vars

(* ------- the worker and the steps of handleAPIUpdateNotification ------- *)
\* handleAPIUpdateNotification between its two Store calls: the form's fields are
\* written through the pointer that GetNotification returned, with no lock held
EditInPlace(datetime, repeatTimesStr, interval) ==
    /\ ops < MaxOps
    /\ ret.op = "GetNotification"
    /\ ret.err = "none"
    /\ obj' = [obj EXCEPT ![ret.arg] = EditedNotification(@, datetime, repeatTimesStr, interval)]
    /\ edited' = IF obj'[ret.arg].RepeatTimes # obj[ret.arg].RepeatTimes
                  THEN edited \cup {ret.arg} ELSE edited
    /\ ops' = ops + 1
    /\ UNCHANGED <<lockVars, hookVars, diskVars, ret, now, settings, order, created, pc, passVars, loopVars,
                   updateChan, ctxDone, lastFailed, refreshCalls, startDone>>

\* handleAPIUpdateNotification, its call of Store.UpdateNotification with the
\* pointer it has written through
UpdateCall(saveOk) ==
    /\ ops > 0
    /\ ret.op = "GetNotification"
    /\ ret.err = "none"
    /\ StoreUpdateNotification(ret.arg, obj[ret.arg], saveOk)

\* the worker, and a request that edits a notification, step by step
NextRace ==
    \/ PassBegin
    \/ Evaluate
    \/ SendOk
    \/ SendFail
    \/ PassEnd
    \/ Arm
    \/ TimerFire
    \/ WaitUpdate
    \/ WaitTimer
    \/ Tick
    \/ \E id \in Ids : StoreGetNotification(id)
    \/ \E f \in EditForms : EditInPlace(f.datetime, f.repeat_times, f.interval)
    \/ \E saveOk \in BOOLEAN : UpdateCall(saveOk)
    \/ RefreshCall

SpecRace == Init /\ [][NextRace]_vars

(* --------- the worker on a loaded store and requests that delete ------- *)
\* the worker, NewServer, and DELETE /api/notifications/{id}
NextDelete ==
    \/ NextEngine
    \/ WaitUpdate
    \/ SetOnUpdate
    \/ \E id \in Ids, saveOk \in BOOLEAN : DeleteNotification(id, saveOk)

SpecDelete == InitLoaded /\ [][NextDelete]_vars

(* ------ the worker and Store mutators whose saves are interleaved ------ *)
\* how many mutators may have been called
MaxWriters == 2

\* what the mutators share: one more caller has left the critical section of its
\* mutator and has its call of Save before it (ops counts the mutators called,
\* refreshCalls those whose Save has returned)
LeftCriticalSection ==
    /\ ops < MaxWriters
    /\ ops' = ops + 1
    /\ UNCHANGED <<lockVars, hookVars, diskVars, ret, now, pc, passVars, loopVars, updateChan, ctxDone,
                   lastFailed, refreshCalls, startDone>>

\* Store.AddNotification up to s.mu.Unlock(), with the notification that
\* handleAPINotifications builds
AddMutation(datetime, repeatTimesStr, interval) ==
    /\ created < MaxNotifs
    /\ ~datetime.err
    /\ obj' = [obj EXCEPT ![created + 1] = NewNotification(datetime, repeatTimesStr, interval)]
    /\ order' = Append(order, created + 1)
    /\ created' = created + 1
    /\ LeftCriticalSection
    /\ UNCHANGED <<settings, edited>>

\* handleAPIUpdateNotification up to the s.mu.Unlock() of Store.UpdateNotification
UpdateMutation(id, datetime, repeatTimesStr, interval) ==
    /\ IndexOf(id) # 0
    /\ obj' = [obj EXCEPT ![id] = EditedNotification(@, datetime, repeatTimesStr, interval)]
    /\ edited' = IF obj'[id].RepeatTimes # obj[id].RepeatTimes THEN edited \cup {id} ELSE edited
    /\ LeftCriticalSection
    /\ UNCHANGED <<settings, order, created>>

\* Store.DeleteNotification up to s.mu.Unlock()
DeleteMutation(id) ==
    /\ IndexOf(id) # 0
    /\ order' = RemoveAt(order, IndexOf(id))
    /\ obj' = Collect(obj, order', pending, idx)
    /\ edited' = edited \ {id}
    /\ LeftCriticalSection
    /\ UNCHANGED <<settings, created>>

\* Store.UpdateSettings up to s.mu.Unlock(), with the settings handleSettings builds
SettingsMutation(cred, repeatTimesStr, interval) ==
    /\ settings' = EditedSettings(settings, cred, repeatTimesStr, interval)
    /\ LeftCriticalSection
    /\ UNCHANGED <<obj, order, created, edited>>

\* a Save that writes the collection and leaves the settings of the file as they are
SaveKeepingSettings ==
    /\ refreshCalls < ops
    /\ file' = [Marshal(Data) EXCEPT !.settings = file.settings]
    /\ diskChanged' = FALSE
    /\ refreshCalls' = refreshCalls + 1
    /\ updateChan' = Refresh(updateChan)
    /\ UNCHANGED <<lockVars, hookVars, ret, now, storeVars, pc, passVars, loopVars, ctxDone, lastFailed,
                   ops, edited, startDone>>

\* the Save that ends a mutator, under the lock, and the Refresh of the handler
\* that called it
SaveCall ==
    /\ refreshCalls < ops
    /\ Saved(TRUE, Data, diskChanged)
    /\ refreshCalls' = refreshCalls + 1
    /\ updateChan' = Refresh(updateChan)
    /\ UNCHANGED <<lockVars, hookVars, ret, now, storeVars, pc, passVars, loopVars, ctxDone, lastFailed,
                   ops, edited, startDone>>

\* the forms of the requests
WriterAddForms ==
    {[datetime |-> AtMinute(0), repeat_times |-> <<"1">>, interval |-> << <<"1">>, <<"m">> >>]}

\* the worker, and the mutators with their saves in any order
NextWriters ==
    \/ PassBegin
    \/ Evaluate
    \/ SendOk
    \/ SendFail
    \/ PassEnd
    \/ Arm
    \/ TimerFire
    \/ WaitUpdate
    \/ WaitTimer
    \/ Tick
    \/ \E f \in WriterAddForms : AddMutation(f.datetime, f.repeat_times, f.interval)
    \/ \E id \in Ids, f \in EditForms : UpdateMutation(id, f.datetime, f.repeat_times, f.interval)
    \/ \E id \in Ids : DeleteMutation(id)
    \/ \E f \in SettingsForms : SettingsMutation(f.cred, f.repeat_times, f.interval)
    \/ SaveCall

SpecWriters == Init /\ [][NextWriters]_vars

(* --------------------------- the Store's lock -------------------------- *)
\* The calls a goroutine makes on Store.mu, and the worker's calls of the
\* Delivery Port and the hook, in the order the code makes them.

\* what os.Stat and the ModTime comparison of CheckDiskChanges can find
DiskChecks == {"staterr", "same", "newer"}

\* Store.Load: Lock, and the deferred Unlock on every return
LoadOps == <<"Lock", "Unlock">>

\* Store.Save: Lock, and the deferred Unlock on every return
SaveOps == <<"Lock", "Unlock">>

\* a CheckDiskChanges that reloads before it gives up its read lock
CheckDiskChangesHolding(found) ==
    IF found = "staterr" THEN <<>>
    ELSE <<"RLock">> \o (IF found = "newer" THEN LoadOps ELSE <<>>) \o <<"RUnlock">>

\* Store.CheckDiskChanges: nothing when Stat fails; else the comparison under the
\* read lock, and Load after RUnlock when the file is newer
CheckDiskChangesOps(found) ==
    IF found = "staterr" THEN <<>>
    ELSE <<"RLock", "RUnlock">> \o (IF found = "newer" THEN LoadOps ELSE <<>>)

\* Store.GetSettings, Store.GetAllNotifications, Store.GetPending:
\* CheckDiskChanges, then RLock and the deferred RUnlock
GetSettingsOps(found) == CheckDiskChangesOps(found) \o <<"RLock", "RUnlock">>
GetAllNotificationsOps(found) == CheckDiskChangesOps(found) \o <<"RLock", "RUnlock">>
GetPendingOps(found) == CheckDiskChangesOps(found) \o <<"RLock", "RUnlock">>

\* Store.GetNotification: RLock and the deferred RUnlock
GetNotificationOps == <<"RLock", "RUnlock">>

\* Store.AddNotification, Store.UpdateSettings: Lock, Unlock, then Save
AddNotificationOps == <<"Lock", "Unlock">> \o SaveOps
UpdateSettingsOps == <<"Lock", "Unlock">> \o SaveOps

\* Store.UpdateNotification, Store.DeleteNotification: Lock, Unlock, then Save
\* when the ID was found
UpdateNotificationOps(found) == <<"Lock", "Unlock">> \o (IF found THEN SaveOps ELSE <<>>)
DeleteNotificationOps(found) == <<"Lock", "Unlock">> \o (IF found THEN SaveOps ELSE <<>>)

\* the Store calls of the HTTP handlers
HandlerCalls ==
    {GetSettingsOps(d) : d \in DiskChecks}
        \cup {GetAllNotificationsOps(d) : d \in DiskChecks}
        \cup {GetNotificationOps, AddNotificationOps, UpdateSettingsOps}
        \cup {UpdateNotificationOps(f) : f \in BOOLEAN}
        \cup {DeleteNotificationOps(f) : f \in BOOLEAN}

\* Worker.checkAndProcess: GetSettings, return when the credentials are missing;
\* GetPending; one SendMessage for each due notification; Save when a delivery
\* succeeded, and the hook when the save succeeded and the hook is set
checkAndProcessOps(d1, creds, d2, sends, save, hook) ==
    GetSettingsOps(d1) \o
    (IF ~creds THEN <<>>
     ELSE GetPendingOps(d2) \o [i \in 1..sends |-> "SendMessage"] \o
          (IF save /\ sends > 0
           THEN SaveOps \o (IF hook THEN <<"onUpdate">> ELSE <<>>)
           ELSE <<>>))

\* the lock steps leave the rest of the program's state alone
LockFrame ==
    UNCHANGED <<hookVars, diskVars, ret, now, storeVars, pc, passVars, loopVars,
                updateChan, ctxDone, histVars>>

\* c is at the call `op`
At(c, op) == call[c] # <<>> /\ Head(call[c]) = op

\* a handler goroutine calls a Store method
BeginCall(c) ==
    /\ c # "worker"
    /\ call[c] = <<>>
    /\ \E p \in HandlerCalls : call' = [call EXCEPT ![c] = p]
    /\ UNCHANGED mu
    /\ LockFrame

\* the worker's loop calls checkAndProcess
BeginPass ==
    /\ call["worker"] = <<>>
    /\ \E d1, d2 \in DiskChecks, creds, save, hook \in BOOLEAN, sends \in 0..MaxNotifs :
          call' = [call EXCEPT !["worker"] =
                       checkAndProcessOps(d1, creds, d2, sends, save, hook)]
    /\ UNCHANGED mu
    /\ LockFrame

\* RWMutex.RLock with no writer in Lock: c holds the read lock
RLock(c) ==
    /\ At(c, "RLock")
    /\ c \notin mu.rwait
    /\ mu.w = "none"
    /\ mu' = [mu EXCEPT !.r = @ \cup {c}]
    /\ call' = [call EXCEPT ![c] = Tail(@)]
    /\ LockFrame

\* RWMutex.RLock while a writer is in Lock: c blocks until that writer's Unlock
RLockWait(c) ==
    /\ At(c, "RLock")
    /\ c \notin mu.rwait
    /\ mu.w # "none"
    /\ mu' = [mu EXCEPT !.rwait = @ \cup {c}]
    /\ UNCHANGED call
    /\ LockFrame

\* RWMutex.RUnlock
RUnlock(c) ==
    /\ At(c, "RUnlock")
    /\ c \in mu.r
    /\ mu' = [mu EXCEPT !.r = @ \ {c}]
    /\ call' = [call EXCEPT ![c] = Tail(@)]
    /\ LockFrame

\* RWMutex.Lock, first half: c takes the writers' mutex, and from now on new
\* readers block
Lock(c) ==
    /\ At(c, "Lock")
    /\ mu.w = "none"
    /\ mu' = [mu EXCEPT !.w = c]
    /\ UNCHANGED call
    /\ LockFrame

\* RWMutex.Lock, second half: the readers have left, c holds the write lock
LockAcquire(c) ==
    /\ At(c, "Lock")
    /\ mu.w = c
    /\ ~mu.held
    /\ mu.r = {}
    /\ mu' = [mu EXCEPT !.held = TRUE]
    /\ call' = [call EXCEPT ![c] = Tail(@)]
    /\ LockFrame

\* RWMutex.Unlock: the readers blocked meanwhile get the read lock, and the
\* writers' mutex is free
Unlock(c) ==
    /\ At(c, "Unlock")
    /\ mu.w = c
    /\ mu.held
    /\ mu' = [w |-> "none", held |-> FALSE, r |-> mu.rwait, rwait |-> {}]
    /\ call' = [d \in Callers |->
                   IF d = c \/ d \in mu.rwait THEN Tail(call[d]) ELSE call[d]]
    /\ LockFrame

\* client.SendMessage returns; nothing makes it return
SendMessageReturns ==
    /\ At("worker", "SendMessage")
    /\ call' = [call EXCEPT !["worker"] = Tail(@)]
    /\ UNCHANGED mu
    /\ LockFrame

\* w.onUpdate() returns: Server.broadcastRefresh takes only the Server's own mutex
HookReturns ==
    /\ At("worker", "onUpdate")
    /\ call' = [call EXCEPT !["worker"] = Tail(@)]
    /\ UNCHANGED mu
    /\ LockFrame

\* the steps of c on Store.mu
MutexStep(c) ==
    \/ RLock(c)
    \/ RLockWait(c)
    \/ RUnlock(c)
    \/ Lock(c)
    \/ LockAcquire(c)
    \/ Unlock(c)

NextLock ==
    \/ BeginPass
    \/ SendMessageReturns
    \/ HookReturns
    \/ \E c \in Callers :
          \/ BeginCall(c)
          \/ RLock(c)
          \/ RLockWait(c)
          \/ RUnlock(c)
          \/ Lock(c)
          \/ LockAcquire(c)
          \/ Unlock(c)

SpecLock == InitEmpty /\ [][NextLock]_vars

\* the scheduler runs every goroutine that can run; sync.Mutex hands the writers'
\* mutex to a goroutine that keeps waiting for it (starvation mode), so a step
\* that is possible again and again is taken. SendMessage has no such promise.
SpecLockFair == SpecLock /\ \A c \in Callers : SF_vars(MutexStep(c))

(* ------------------------------ properties ----------------------------- *)
\* the anchored due instant of n's next delivery: T truncated to the minute plus
\* I times the deliveries counted so far
AnchoredSlot(n) == Truncate(n.ScheduledTime) + RepeatIntervalOf(n) * n.SendsCount

\* the notification the range loop is at
Current == obj[pending[idx]]

\* a step that is one iteration of the range loop up to SendMessage
EvaluateStep == pc = "loop" /\ idx <= Len(pending) /\ (pc' # pc \/ idx' # idx)

\* a step of the pass in progress
PassStep == pc \in {"loop", "send"} /\ (pc' # pc \/ idx' # idx)

\* C1: an evaluation pass treats a notification as due exactly when the pass's now
\* has reached T + I*k (T truncated to the minute, k = sendsCount): SendMessage is
\* called only then, a notification that is not yet due is left alone and only
\* offers T + I*k as a wake-up candidate, and lastPushTime plays no part.
C1_AnchoredSchedule ==
    [][EvaluateStep =>
        LET id == pending[idx]
            n == obj[id]
            due == passNow >= AnchoredSlot(n)
        IN  /\ (pc' = "send") <=> (due /\ n.SendsCount < RepeatTimesOf(n))
            /\ ~due => /\ pc' = "loop"
                       /\ earliestNext' = FoldEarliest(earliestNext, AnchoredSlot(n))
                       /\ saveNeeded' = saveNeeded
                       /\ (IndexOf(id) # 0 => obj'[id] = n)
            /\ (due /\ n.SendsCount >= RepeatTimesOf(n) /\ IndexOf(id) # 0)
                   => obj'[id].Status = StatusDone]_vars

\* C1 witness: a second or later delivery is under way at its anchored slot although
\* less than one interval has passed since the previous push
C1_Witness ==
    /\ pc = "send"
    /\ Current.SendsCount >= 1
    /\ passNow < Current.LastPushTime + RepeatIntervalOf(Current)

\* C2: SendMessage is called for a notification only while its sendsCount is below
\* its effective repeatTimes, and a stored notification whose repeatTimes no request
\* has edited never has a sendsCount above its repeatTimes.
C2_RetryBudget ==
    /\ pc = "send" => Current.SendsCount < loc.repeatTimes
    /\ \A i \in 1..Len(order) :
          order[i] \notin edited => obj[order[i]].SendsCount <= RepeatTimesOf(obj[order[i]])

\* C3: every stored notification (with a repeat count of at least 1) whose sendsCount
\* has reached its repeatTimes has status Done.
C3_ExhaustedIsDone ==
    \A i \in 1..Len(order) :
        LET n == obj[order[i]]
        IN  (RepeatTimesOf(n) >= 1 /\ n.SendsCount >= RepeatTimesOf(n)) => n.Status = StatusDone

\* C4: a notification that is Done when a pass begins is not in the pass's snapshot
\* (so SendMessage is not called for it and it offers no wake-up candidate), and no
\* step of the pass changes any of its fields.
C4_DoneExcluded ==
    /\ [](pc \in {"loop", "send"} => \A j \in 1..Len(pending) : pending[j] \notin startDone)
    /\ [][PassStep => \A id \in startDone : obj'[id] = obj[id]]_vars
    /\ [][(earliestNext' # earliestNext /\ ~IsZero(earliestNext')) =>
            (PassStep /\ pending[idx] \notin startDone)]_vars

\* C4 witness: a delivery is under way in a pass that began with a Done notification
\* in the store
C4_Witness == pc = "send" /\ startDone # {}

\* C7: after a failed attempt the worker does not call SendMessage for the same
\* notification again before its next slot, T + I*(k+1).
C7_NoRetryBeforeNextSlot ==
    (pc = "send" /\ lastFailed[pending[idx]]) =>
        passNow >= Truncate(Current.ScheduledTime) + loc.repeatInterval * (Current.SendsCount + 1)

\* C10: while the loop waits after a pass that returned the zero time, the timer is
\* off and timer.C is empty, and the only way from there to a new pass is a receive
\* from updateChan.
C10_IdleDisarmed ==
    /\ []((pc = "wait" /\ IsZero(nextRun)) => (~timer.armed /\ timerC = 0))
    /\ [][(pc = "wait" /\ IsZero(nextRun) /\ pc' = "start") => updateChan' < updateChan]_vars

\* C10 witness: credentials are set, the store is empty and the loop waits
C10_Witness == pc = "wait" /\ IsZero(nextRun) /\ ~CredentialsMissing /\ order = <<>>

\* a step in which SendMessage returns
AttemptStep == pc = "send" /\ pc' # "send"

\* a step that ends a pass of checkAndProcess over a snapshot
PassEndStep == pc = "loop" /\ pc' = "arm"

\* C5: with credentials set, a SendMessage that always succeeds, time that advances
\* and no request, every notification of the store eventually is Done with
\* sendsCount equal to its repeatTimes N; every call of SendMessage is made at or
\* after the anchored slot T + I*k of the delivery k it counts, with k < N, so that
\* N calls are made, one per slot; and the pass that makes the first delivery of a
\* notification with N > 1 leaves it Pending with sendsCount 1 and returns T + I as
\* the next wake-up when it is the only notification.
C5_ProgressToCompletion ==
    /\ <>(\A i \in 1..Len(order) :
             /\ obj[order[i]].Status = StatusDone
             /\ obj[order[i]].SendsCount = RepeatTimesOf(obj[order[i]]))
    /\ [][AttemptStep =>
            LET id == pending[idx]
            IN  /\ passNow >= AnchoredSlot(obj[id])
                /\ obj[id].SendsCount < RepeatTimesOf(obj[id])
                /\ obj'[id].SendsCount = obj[id].SendsCount + 1]_vars
    /\ [][(EvaluateStep /\ Current.SendsCount = 0
                        /\ passNow >= Truncate(Current.ScheduledTime)) => pc' = "send"]_vars
    /\ [][PassEndStep =>
            \A i \in 1..Len(order) :
                LET n == obj[order[i]]
                IN  (n.SendsCount = 1 /\ n.LastPushTime = passNow /\ RepeatTimesOf(n) > 1) =>
                        /\ n.Status = StatusPending
                        /\ ~IsZero(nextRun')
                        /\ nextRun' <= Truncate(n.ScheduledTime) + RepeatIntervalOf(n)
                        /\ Len(order) = 1 =>
                               nextRun' = Truncate(n.ScheduledTime) + RepeatIntervalOf(n)]_vars

\* C5 witness: a notification with a repeat count of 3 is Done after 3 deliveries
C5_Witness ==
    \E i \in 1..Len(order) :
        /\ obj[order[i]].RepeatTimes = DefaultRepeatTimes
        /\ obj[order[i]].SendsCount = DefaultRepeatTimes
        /\ obj[order[i]].Status = StatusDone

\* C6: a SendMessage that returns an error leaves sendsCount and status as they were
\* and sets lastPushTime to the pass's now; the slot stays due, so the next pass that
\* evaluates the notification calls SendMessage again; with a SendMessage that always
\* fails every notification keeps sendsCount 0 and status Pending, and every pass
\* sets the lastPushTime of each notification that is due to the pass's now.
C6_FailureCounting ==
    /\ [][AttemptStep =>
            LET id == pending[idx]
            IN  /\ obj'[id].SendsCount = obj[id].SendsCount
                /\ obj'[id].Status = obj[id].Status
                /\ obj'[id].LastPushTime = passNow
                /\ passNow >= AnchoredSlot(obj'[id])
                /\ ~IsZero(earliestNext') /\ earliestNext' <= AnchoredSlot(obj[id])]_vars
    /\ [][(EvaluateStep /\ lastFailed[pending[idx]]) => pc' = "send"]_vars
    /\ [](\A i \in 1..Len(order) :
             obj[order[i]].SendsCount = 0 /\ obj[order[i]].Status = StatusPending)
    /\ [][PassEndStep =>
            \A j \in 1..Len(pending) :
                passNow >= AnchoredSlot(obj[pending[j]]) =>
                    obj[pending[j]].LastPushTime = passNow]_vars

\* C6 witness: a second pass, later than the first, has attempted a notification
\* again and failed again
C6_Witness ==
    /\ pc = "arm"
    /\ \E i \in 1..Len(order) :
          /\ lastFailed[order[i]]
          /\ obj[order[i]].LastPushTime = passNow
          /\ obj[order[i]].LastPushTime > Truncate(obj[order[i]].ScheduledTime)
          /\ obj[order[i]].SendsCount = 0

\* C8: updateChan holds one value when Refresh was called once or more since the
\* loop last received from it and none otherwise; a receive from it empties it and
\* starts one pass; so any number of calls between two receives starts one pass.
C8_RefreshCoalescing ==
    /\ [](updateChan = IF refreshCalls >= 1 THEN 1 ELSE 0)
    /\ [][updateChan' < updateChan =>
            /\ pc = "wait" /\ pc' = "start"
            /\ updateChan' = 0 /\ refreshCalls' = 0
            /\ timerC' = timerC]_vars

\* C8 witness: Refresh was called twice while the loop has not received, one value waits
C8_Witness == refreshCalls >= 2 /\ updateChan = 1 /\ pc \in {"loop", "send", "arm", "wait"}

CredentialEmpty == settings.PushoverToken = "" \/ settings.PushoverUser = ""

\* C11: a pass that finds a credential empty goes straight to the return of the zero
\* time: it calls SendMessage for no notification, changes no notification, writes
\* no file and does not reach the save and the update hook at the end of a pass,
\* even with a notification overdue.
C11_CredentialsAbsent ==
    /\ [][(pc = "start" /\ pc' # "start" /\ CredentialEmpty) =>
            /\ pc' = "arm"
            /\ IsZero(nextRun')
            /\ obj' = obj /\ order' = order /\ settings' = settings
            /\ pending' = pending /\ saveNeeded' = saveNeeded
            /\ file' = file]_vars
    /\ [][(pc' = "send" /\ pc # "send") => ~CredentialEmpty \/ pc = "loop"]_vars

\* C11 witness: a pass has returned the zero time with a credential empty while a
\* Pending notification is overdue
C11_Witness ==
    /\ pc = "arm" /\ IsZero(nextRun) /\ CredentialEmpty
    /\ \E i \in 1..Len(order) :
          /\ obj[order[i]].Status = StatusPending
          /\ obj[order[i]].SendsCount = 0
          /\ AnchoredSlot(obj[order[i]]) < now

\* the stored notifications that are Pending
StillPending == {i \in 1..Len(order) : obj[order[i]].Status = StatusPending}

\* C12: with credentials set and no request during the pass, the time a pass returns
\* is the least anchored slot T + I*sendsCount over the notifications that are Pending
\* after the pass, and it is the zero time exactly when none is Pending.
C12_NextWake ==
    [][PassEndStep =>
        /\ IsZero(nextRun') <=> StillPending = {}
        /\ StillPending # {} =>
              /\ \E i \in StillPending : nextRun' = AnchoredSlot(obj[order[i]])
              /\ \A i \in StillPending : nextRun' <= AnchoredSlot(obj[order[i]])]_vars

\* C12 witness: a pass returned the slot of the second of two Pending notifications,
\* which is earlier than the slot of the first
C12_Witness ==
    /\ pc = "arm" /\ Len(order) = 2
    /\ obj[order[1]].Status = StatusPending /\ obj[order[2]].Status = StatusPending
    /\ AnchoredSlot(obj[order[2]]) < AnchoredSlot(obj[order[1]])
    /\ nextRun = AnchoredSlot(obj[order[2]])

C18_DonePermanent ==
    /\ [][\A id \in Ids :
            (IndexOf(id) # 0 /\ obj[id].Status = StatusDone /\ IndexOf(id)' # 0) =>
                /\ obj'[id].Status = StatusDone
                /\ obj'[id].SendsCount = obj[id].SendsCount]_vars
    /\ [](pc = "send" => Current.Status = StatusPending)

\* C18 witness: a request has changed the repeatTimes of a notification that is Done
C18_Witness ==
    \E i \in 1..Len(order) : order[i] \in edited /\ obj[order[i]].Status = StatusDone

\* C19: wherever the loop is and whether updateChan is full or not, a Refresh call
\* can take its step, and it never puts more into updateChan than it holds.
C19_RefreshNeverBlocks ==
    /\ [](refreshCalls < MaxRefresh => ENABLED RefreshCall)
    /\ [](updateChan <= UpdateChanCap)
    /\ [][refreshCalls' > refreshCalls => (pc' = pc /\ passNow' = passNow /\ timer' = timer)]_vars

\* C19 witness: Refresh has returned twice with updateChan full and the loop stopped
C19_Witness == pc = "stopped" /\ updateChan = UpdateChanCap /\ refreshCalls >= 2

\* the later of two instants
Later(a, b) == IF a < b THEN b ELSE a

\* C20: after a pass that returned a time, the timer is armed for max(0, nextRun - now);
\* a receive from timer.C happens only at or after nextRun, under the deadline of the
\* latest pass; a nextRun that has passed makes the timer expire at once; a pass
\* starts from the wait only by a receive from timer.C or from updateChan; and the
\* arming after a pass drains what an older deadline left in timer.C.
C20_TimerArming ==
    /\ [][(pc = "arm" /\ pc' = "wait" /\ ~IsZero(nextRun)) =>
            /\ timer'.armed
            /\ timer'.at = Later(nextRun, now)
            /\ timerC' = 0]_vars
    /\ []((pc = "wait" /\ timerC > 0) => (~IsZero(nextRun) /\ now >= nextRun))
    /\ []((pc = "wait" /\ timer.armed) => (~IsZero(nextRun) /\ timer.at >= nextRun))
    /\ []((pc = "wait" /\ ~IsZero(nextRun) /\ now >= nextRun) =>
            (timerC > 0 \/ ENABLED TimerFire))
    /\ [][(pc = "wait" /\ pc' = "start") =>
            \/ timerC' < timerC /\ updateChan' = updateChan
            \/ updateChan' < updateChan /\ timerC' = timerC /\ timer' = timer]_vars

\* C20 witness: a pass started by a receive from updateChan has ended while the timer
\* of the pass before it is still armed for a deadline that has not come
C20_Witness ==
    pc = "arm" /\ timer.armed /\ now < timer.at /\ ~IsZero(nextRun) /\ nextRun # timer.at

(* ----------------------- properties of the store ----------------------- *)
\* the documents a and b have the same settings and the same notifications, field
\* for field, in the same order
SameDocument(a, b) ==
    /\ a.settings = b.settings
    /\ a.order = b.order
    /\ \A i \in 1..Len(a.order) : a.obj[a.order[i]] = b.obj[a.order[i]]

\* a restart over the file that a Save of the data in memory has written
RestartAfterSave == Restart /\ file = Marshal(Data)

LegacyLoaded(l, r) ==
    /\ ~r.err
    /\ r.data.settings.RepeatTimes = 3
    /\ r.data.settings.RepeatInterval = <<"3", "0", "m">>
    /\ Len(r.data.order) = Len(l)
    /\ \A i \in 1..Len(l) :
          /\ r.data.order[i] = l[i].ID
          /\ [ID |-> l[i].ID] @@ r.data.obj[l[i].ID] = l[i]

\* C15: Load of a file that holds a bare array of notifications returns no error,
\* keeps every listed notification in its place and leaves Settings with
\* RepeatTimes 3 and RepeatInterval "30m": over whatever the store holds while such
\* a file is on disk, and at every start of the process over such a file
C15_LegacyLoad ==
    [][file.kind = "list" =>
          /\ LegacyLoaded(file.notifications, Load(file, Data))
          /\ Restart => LegacyLoaded(file.notifications, [err |-> FALSE, data |-> Data'])]_vars

\* the process has started over the old file with two notifications and holds both,
\* the Done one first
C15_Witness ==
    /\ ret.op = "Load"
    /\ file.kind = "list"
    /\ ~diskChanged
    /\ Len(order) = 2
    /\ order[1] = 2
    /\ obj[2].Status = StatusDone
    /\ obj[1].RepeatTimes = 0
    /\ settings.RepeatTimes = DefaultRepeatTimes

\* Store.UpdateNotification, Store.DeleteNotification or Store.GetNotification is
\* called with id
CalledWith(id) ==
    \/ \E n \in UpdateInputs, saveOk \in BOOLEAN : StoreUpdateNotification(id, n, saveOk)
    \/ \E saveOk \in BOOLEAN : StoreDeleteNotification(id, saveOk)
    \/ StoreGetNotification(id)

\* C16: UpdateNotification, DeleteNotification and GetNotification called with an
\* id that no stored notification has return the not-found error, and leave the
\* notifications in memory, the settings and the file as they were: nothing is
\* saved
C16_NotFoundUnchanged ==
    [][\A id \in Ids :
          IndexOf(id) = 0 /\ ret'.arg = id /\ CalledWith(id) =>
             /\ ret'.err = "notfound"
             /\ order' = order
             /\ obj' = obj
             /\ settings' = settings
             /\ file' = file
             /\ diskChanged' = diskChanged]_vars

\* a delete of an id that is not stored has returned not-found while the file on
\* disk is not what a Save of the memory would write
C16_Witness ==
    /\ ret.op = "DeleteNotification"
    /\ ret.err = "notfound"
    /\ IndexOf(ret.arg) = 0
    /\ order # <<>>
    /\ file # Marshal(Data)

\* one of the four read accessors of the Store is called, GetNotification with id
ReadAccessor(id) ==
    \/ StoreGetSettings
    \/ StoreGetAllNotifications
    \/ StoreGetPending
    \/ StoreGetNotification(id)

\* C17: when the file is newer than the last load or save of this process and can
\* be loaded, what a read accessor returns (GetSettings, GetAllNotifications,
\* GetPending, GetNotification) is what the file holds
C17_ReadTriggersReload ==
    [][\A id \in Ids :
          (/\ ReadAccessor(id)
           /\ diskChanged
           /\ file.kind # "missing"
           /\ ~Load(file, Data).err)
          => ret'.val = ValueOf(ret'.op, ret'.arg, Load(file, Data).data)]_vars

(* ---------------------- properties of the pass end --------------------- *)
\* the pass in progress has changed a notification: it has called SendMessage, or a
\* notification of its snapshot that was not Done when it began is Done
Mutated ==
    \/ passOut.sent # <<>>
    \/ \E j \in 1..Len(pending) :
          pending[j] \notin startDone /\ obj[pending[j]].Status = StatusDone

\* C21: a pass calls Store.Save at most once, at its return after the whole range
\* loop, and exactly when it has changed a notification (an attempt that succeeded
\* or failed, or a notification marked Done); a pass with nothing due saves
\* nothing, and no other step of the worker writes the file
C21_BatchPersistence ==
    /\ [](passOut.saves <= 1)
    /\ [][PassEndStep =>
            /\ idx > Len(pending)
            /\ passOut'.saves = IF Mutated THEN 1 ELSE 0
            /\ ~Mutated => file' = file
            /\ (Mutated /\ ~passOut'.failed) => file' = Marshal(Data)]_vars
    /\ [][~PassEndStep => (file' = file /\ passOut'.saves <= passOut.saves)]_vars

\* a pass that has called SendMessage for two notifications has saved once
C21_Witness ==
    /\ pc = "arm"
    /\ Len(passOut.sent) = 2
    /\ passOut.saves = 1
    /\ ~passOut.failed
    /\ file = Marshal(Data)

\* C22: a pass calls the hook at most once, and exactly when it has changed a
\* notification, its Save has returned nil and a hook is registered: not after a
\* Save that failed, not when nothing was changed, not when onUpdate is nil
C22_UpdateHook ==
    /\ [](passOut.hooks <= 1)
    /\ [][PassEndStep =>
            passOut'.hooks =
               IF Mutated /\ passOut'.saves = 1 /\ ~passOut'.failed /\ onUpdate
               THEN 1 ELSE 0]_vars
    /\ [][~PassEndStep => passOut'.hooks <= passOut.hooks]_vars
    /\ [][(PassEndStep /\ passOut'.failed) => (file' = file /\ passOut'.hooks = 0)]_vars

\* a pass has sent, saved and called the hook
C22_Witness ==
    /\ pc = "arm"
    /\ passOut.sent # <<>>
    /\ passOut.saves = 1
    /\ passOut.hooks = 1
    /\ onUpdate

\* SendsCount of the notification id when the pass in progress began, where only
\* the pass changes notifications: one less than now when the pass has delivered it
CountAtStart(id) ==
    IF (\E j \in 1..Len(passOut.sent) : passOut.sent[j] = id) /\ ~lastFailed[id]
    THEN obj[id].SendsCount - 1
    ELSE obj[id].SendsCount

\* the notification id was due with deliveries left when the pass in progress began
DueAtStart(id) ==
    /\ passNow >= Truncate(obj[id].ScheduledTime) + RepeatIntervalOf(obj[id]) * CountAtStart(id)
    /\ CountAtStart(id) < RepeatTimesOf(obj[id])

\* C23: a SendMessage that fails does not end the pass: each notification of the
\* snapshot that is due with sendsCount < repeatTimes gets one call of SendMessage
\* in the pass, neither none nor two, whatever SendMessage returned for the others,
\* and the others get none
C23_FailureIsolation ==
    /\ [][(EvaluateStep /\ passNow >= AnchoredSlot(Current)
                        /\ Current.SendsCount < RepeatTimesOf(Current)) => pc' = "send"]_vars
    /\ [][AttemptStep =>
            /\ passOut'.sent = Append(passOut.sent, pending[idx])
            /\ idx' = idx + 1
            /\ pc' = "loop"]_vars
    /\ [][PassEndStep =>
            /\ idx = Len(pending) + 1
            /\ passOut.sent = SelectSeq(pending, DueAtStart)]_vars

\* a pass has called SendMessage for both notifications though the call for the
\* first one failed
C23_Witness ==
    /\ pc = "arm"
    /\ passOut.sent = <<1, 2>>
    /\ lastFailed[1]
    /\ ~lastFailed[2]
    /\ obj[2].SendsCount = 1

\* C24: the calls of SendMessage in one pass are made in the order the
\* notifications have in the store's collection, whatever their due instants
C24_ProcessingOrder ==
    \A a \in 1..Len(passOut.sent), b \in 1..Len(passOut.sent) :
        a < b => IndexOf(passOut.sent[a]) < IndexOf(passOut.sent[b])

\* a pass has sent the first notification of the collection before the second,
\* which was due a minute earlier
C24_Witness ==
    /\ passOut.sent = <<1, 2>>
    /\ order = <<1, 2>>
    /\ Truncate(obj[1].ScheduledTime) > Truncate(obj[2].ScheduledTime)

\* a step in which Store.Save returned nil: the end of a pass that saved, or a
\* handler that went on to Worker.Refresh
SaveSucceededStep ==
    \/ PassEndStep /\ passOut'.saves = 1 /\ ~passOut'.failed
    \/ refreshCalls' = refreshCalls + 1

\* the step in which a pass begins, which reads the store through GetSettings
PassBeginStep == pc = "start" /\ pc' # "start"

\* C25: a failed save does not roll back. When the engine's end-of-pass save fails
\* the pass returns and the loop goes on with the collection as the pass left it;
\* when the save of an add fails the new notification is in the collection; what a
\* failed save left in memory is still there when the store is read next (nobody
\* else writes the file); and every save that succeeds writes a file with the data
\* in memory, the mutations of the failed saves included
C25_NoRollback ==
    [][/\ (PassEndStep /\ passOut'.failed) =>
              (pc' = "arm" /\ UNCHANGED <<settings, order, obj>>)
       /\ (\E f \in AddForms : AddNotification(f.datetime, f.repeat_times, f.interval, FALSE)) =>
              (order' = Append(order, created') /\ obj'[created'].Status = StatusPending)
       /\ PassBeginStep =>
              (/\ UNCHANGED <<settings, order>>
               /\ \A i \in 1..Len(order) : obj'[order[i]] = obj[order[i]])
       /\ SaveSucceededStep => file' = Marshal(Data')]_vars

\* a pass whose save has just failed, with a delivery counted in memory only
C25_FailedSave ==
    /\ pc = "arm"
    /\ passOut.failed
    /\ \E i \in 1..Len(order) : obj[order[i]].SendsCount > 0

(* ------------------- properties of the store's own writes -------------- *)
\* a step in which a mutator of the Store called Save and Save returned nil
OwnSave ==
    \/ /\ ret'.op = "UpdateNotification"
       /\ IndexOf(ret'.arg) # 0
       /\ StoreUpdateNotification(ret'.arg, obj'[ret'.arg], TRUE)
    \/ /\ ret'.op = "DeleteNotification"
       /\ IndexOf(ret'.arg) # 0
       /\ StoreDeleteNotification(ret'.arg, TRUE)
    \/ /\ refreshCalls' = refreshCalls + 1
       /\ \E f \in StoreSettingsForms : UpdateSettings(f.cred, f.repeat_times, f.interval, TRUE)

\* the read accessors of the Store
ReadAccessors == {"GetSettings", "GetAllNotifications", "GetPending", "GetNotification"}

EmptyWithDefaults(d) ==
    /\ d.order = <<>>
    /\ d.settings.RepeatTimes = 3
    /\ d.settings.RepeatInterval = <<"3", "0", "m">>
    /\ d.settings.PushoverToken = ""
    /\ d.settings.PushoverUser = ""

\* C27: a missing file and an empty file load without error into an AppSchema with
\* no notifications and the default settings (repeatTimes 3, repeatInterval "30m"),
\* at startup as in a reload; a file that parses neither as the schema nor as a
\* bare list makes Load return an error, and no process starts on it
C27_LoadOutcomes ==
    [][/\ file.kind \in {"missing", "empty"} =>
             /\ ~Load(file, Data).err
             /\ EmptyWithDefaults(Load(file, Data).data)
             /\ Restart => (ret'.err = "none" /\ EmptyWithDefaults(Data'))
       /\ file.kind = "corrupt" => (Load(file, Data).err /\ ~Restart)]_vars

\* a process that had notifications has started again on an empty file: it has
\* none, and the default settings
C27_Witness ==
    /\ ret.op = "Load"
    /\ ret.err = "none"
    /\ file.kind = "empty"
    /\ created > 0
    /\ EmptyWithDefaults(Data)

\* a file that cannot be parsed has been written while the process runs
C27_CorruptSeen ==
    /\ file.kind = "corrupt"
    /\ diskChanged

\* the settings of the data d and every notification of their collection have a
\* repeatTimes that is not zero and a repeatInterval that is not empty
Backfilled(d) ==
    /\ d.settings.RepeatTimes # 0
    /\ d.settings.RepeatInterval # <<>>
    /\ \A i \in 1..Len(d.order) :
          /\ d.obj[d.order[i]].RepeatTimes # 0
          /\ d.obj[d.order[i]].RepeatInterval # <<>>

\* C28: after any successful load (of a file in the current schema, a legacy bare
\* list, an empty or a missing file; at startup or in a reload), Settings and every
\* notification in the store have a non-zero repeatTimes and a non-empty
\* repeatInterval
C28_BackfillAfterLoad ==
    [][/\ ~Load(file, Data).err => Backfilled(Load(file, Data).data)
       /\ Restart => Backfilled(Data')]_vars

\* the same for the files that are not a legacy bare list
C28_BackfillUnlessLegacy ==
    [][file.kind # "list" =>
          /\ ~Load(file, Data).err => Backfilled(Load(file, Data).data)
          /\ Restart => Backfilled(Data')]_vars

(* ------------------ properties of the effective values ----------------- *)
\* the repeatTimes that holds for n: its own, or the global default of Settings
\* when its own is zero
EffectiveTimes(n) == IF n.RepeatTimes = 0 THEN settings.RepeatTimes ELSE n.RepeatTimes

\* the repeatInterval that holds for n, in ticks: its own, or the global default of
\* Settings when its own is empty
EffectiveInterval(n) ==
    IF n.RepeatInterval = <<>> THEN ParseDuration(settings.RepeatInterval).d
    ELSE ParseDuration(n.RepeatInterval).d

\* C29: when the notification under evaluation has a repeatTimes of zero or an empty
\* repeatInterval, the pass uses the global defaults held in Settings: it calls
\* SendMessage exactly when the instant anchored with the effective interval has
\* come and fewer deliveries than the effective repeatTimes are counted, and after a
\* delivery attempt it marks the notification Done exactly when the effective
\* repeatTimes is reached
C29_EffectiveDefaults ==
    [][/\ (EvaluateStep /\ (Current.RepeatTimes = 0 \/ Current.RepeatInterval = <<>>)) =>
             ((pc' = "send") <=>
                 /\ ~(passNow < NextSendTime(Current, EffectiveInterval(Current)))
                 /\ Current.SendsCount < EffectiveTimes(Current))
       /\ (AttemptStep /\ (Current.RepeatTimes = 0 \/ Current.RepeatInterval = <<>>)) =>
             ((obj'[pending[idx]].Status = StatusDone) <=>
                 obj'[pending[idx]].SendsCount >= EffectiveTimes(Current))]_vars

\* a migrated notification is evaluated while Settings hold other defaults than 3
\* and "30m"
C29_UnsetEvaluated ==
    /\ pc = "loop"
    /\ idx <= Len(pending)
    /\ Current.RepeatTimes = 0
    /\ settings.RepeatTimes # DefaultRepeatTimes

\* the duration that a stored repeatInterval names, in ticks: a number of minutes,
\* of hours, or of days of 24 hours
NamedDuration(s) ==
    LET k == DigitPrefixLen(s)
        u == SubSeq(s, k + 1, Len(s))
    IN  DigitsValue(SubSeq(s, 1, k)) *
            (CASE u = <<"m">> -> Minute [] u = <<"h">> -> Hour [] u = <<"d">> -> 24 * Hour)

\* s is a repeatInterval as the page has it built: a positive number and a unit
\* m, h or d
Storable(s) ==
    /\ DigitPrefixLen(s) > 0
    /\ DigitsValue(SubSeq(s, 1, DigitPrefixLen(s))) > 0
    /\ SubSeq(s, DigitPrefixLen(s) + 1, Len(s)) \in {<<"m">>, <<"h">>, <<"d">>}

\* C30: for a notification whose repeatInterval was built by the API layer (a
\* positive number and a unit m, h or d), the pass calls SendMessage no earlier than
\* the anchor plus that duration times the deliveries counted, and after a delivery
\* attempt that leaves it Pending the wake-up it computes is no later than the
\* anchor plus that duration times the deliveries counted, and is that instant
\* when it is the only notification
C30_OwnInterval ==
    [][/\ (EvaluateStep /\ Storable(Current.RepeatInterval) /\ pc' = "send") =>
             ~(passNow < Truncate(Current.ScheduledTime)
                           + NamedDuration(Current.RepeatInterval) * Current.SendsCount)
       /\ (AttemptStep /\ Storable(Current.RepeatInterval)
              /\ obj'[pending[idx]].Status = StatusPending) =>
             LET n == obj'[pending[idx]]
                 slot == Truncate(n.ScheduledTime) + NamedDuration(n.RepeatInterval) * n.SendsCount
             IN  /\ earliestNext' <= slot
                 /\ Len(pending) = 1 => earliestNext' = slot]_vars

\* the same for the units that time.ParseDuration knows
C30_OwnIntervalMinutesHours ==
    [][/\ (EvaluateStep /\ Storable(Current.RepeatInterval) /\ pc' = "send"
              /\ ~ParseDuration(Current.RepeatInterval).err) =>
             ~(passNow < Truncate(Current.ScheduledTime)
                           + NamedDuration(Current.RepeatInterval) * Current.SendsCount)
       /\ (AttemptStep /\ Storable(Current.RepeatInterval)
              /\ ~ParseDuration(Current.RepeatInterval).err
              /\ obj'[pending[idx]].Status = StatusPending) =>
             LET n == obj'[pending[idx]]
                 slot == Truncate(n.ScheduledTime) + NamedDuration(n.RepeatInterval) * n.SendsCount
             IN  /\ earliestNext' <= slot
                 /\ Len(pending) = 1 => earliestNext' = slot]_vars

(* ----------------------- properties of the lock ------------------------ *)
\* a field of a notification of the collection is written
NotificationWritten == \E i \in 1..Len(order) : obj'[order[i]] # obj[order[i]]

\* C31: every write of a field of a stored notification happens inside a Store
\* operation, which holds the lock: the worker and the handlers change a
\* notification only through Store.UpdateNotification
C31_LockDiscipline ==
    [][NotificationWritten =>
          /\ ret'.op = "UpdateNotification"
          /\ StoreUpdateNotification(ret'.arg, obj'[ret'.arg], ret'.err = "none")]_vars

\* a SendMessage call of the worker is in flight for the notification whose pointer
\* a request holds and is about to write through
C31_BothHoldPointer ==
    /\ pc = "send"
    /\ ret.op = "GetNotification"
    /\ ret.err = "none"
    /\ pending[idx] = ret.arg
    /\ ops < MaxOps

(* ----------------- properties of a delete during a pass ---------------- *)
\* C32: once DeleteNotification(id) has returned, the notification is not in the
\* collection (ids are never reused) and the worker calls SendMessage for no such
\* notification, also in a pass that took its snapshot before the delete; and no
\* save writes a notification that is not in the collection
C32_DeleteEffective ==
    [][/\ (EvaluateStep /\ pc' = "send") => IndexOf(pending[idx]) # 0
       /\ file' # file =>
             \A i \in 1..Len(file'.notifications) :
                 IndexIn(order', file'.notifications[i].ID) # 0]_vars

\* the second half alone: no save writes a notification that is not in the collection
C32_DeletedStaysOut ==
    [][file' # file =>
          \A i \in 1..Len(file'.notifications) :
              IndexIn(order', file'.notifications[i].ID) # 0]_vars

\* SendMessage has returned nil for a notification that was deleted while the pass
\* was delivering the one before it
C32_DeletedDelivered ==
    /\ passOut.sent = <<1, 2>>
    /\ order = <<1>>
    /\ ops = 1

(* ------------------ properties of interleaved writers ------------------ *)
\* C33: no update is lost between the writers of the process. Once every mutator
\* that was called has returned from its Save and the worker is not inside a pass,
\* the file is the document of the data in memory, whatever the order in which the
\* mutations and the saves took place
C33_NoLostUpdate ==
    (refreshCalls = ops /\ pc \notin {"loop", "send"}) => file = Marshal(Data)

\* two mutators have changed the store before either saved, an added notification
\* and new settings; one Save has returned and the file has both changes
C33_Witness ==
    /\ ops = 2
    /\ refreshCalls = 1
    /\ created = 2
    /\ Len(file.notifications) = 2
    /\ settings.RepeatTimes = 2
    /\ file.settings = EncodeSettings(settings)
    /\ file = Marshal(Data)

(* ------------------------ properties of shutdown ----------------------- *)
\* C34: once ctx is cancelled the worker begins no evaluation pass, and a select
\* that finds ctx.Done() closed takes that case and returns, also when updateChan
\* or timer.C hold a value
C34_NoPassAfterShutdown ==
    [][/\ (ctxDone /\ pc = "start") => pc' = "start"
       /\ (ctxDone /\ pc = "wait") => pc' \in {"wait", "stopped"}]_vars

\* the select is reached with ctx cancelled and a value in updateChan or in timer.C
C34_BothReady ==
    /\ pc = "wait"
    /\ ctxDone
    /\ (updateChan > 0 \/ timerC > 0)

\* the second half alone: a select that finds ctx.Done() closed returns
C34_ExitAtWait ==
    [][(ctxDone /\ pc = "wait") => pc' \in {"wait", "stopped"}]_vars

\* c holds Store.mu, for reading or for writing
HoldsLock(c) == c \in mu.r \/ (mu.w = c /\ mu.held)

\* c is inside a Store operation: its next step is a step on Store.mu
InStore(c) == call[c] # <<>> /\ Head(call[c]) \in {"RLock", "RUnlock", "Lock", "Unlock"}

\* no goroutine calls RLock or Lock while it holds the lock, and the worker is
\* outside the lock altogether while it calls SendMessage or the hook
NoLockHeldAtCall ==
    /\ \A c \in Callers : At(c, "RLock") \/ At(c, "Lock") => ~HoldsLock(c)
    /\ At("worker", "SendMessage") \/ At("worker", "onUpdate") =>
          /\ ~HoldsLock("worker")
          /\ mu.w # "worker"
          /\ "worker" \notin mu.rwait

\* C35: the Store's lock is deadlock-free. No Store operation acquires the lock
\* while it holds it, the worker holds no Store lock while it calls SendMessage
\* or the hook, and under any interleaving of the handlers and the worker every
\* Store operation that was started completes, also while a SendMessage call
\* never returns.
C35_DeadlockFree ==
    /\ []NoLockHeldAtCall
    /\ \A c \in Callers : InStore(c) ~> ~InStore(c)

\* the delivery call is outstanding while one handler is in the critical section
\* of Save and the other waits for the read lock
C35_DeliveryBlocked ==
    /\ At("worker", "SendMessage")
    /\ mu.w = "handler1"
    /\ mu.held
    /\ call["handler1"] = <<"Unlock">>
    /\ "handler2" \in mu.rwait
====
